---- MODULE Spec2Model ----
(***************************************************************************)
(* A model of serde-jsonlines: the synchronous JsonLinesWriter /           *)
(* JsonLinesReader / Iter / WriteExt of src/src/lib.rs and the             *)
(* asynchronous AsyncJsonLinesWriter / AsyncJsonLinesReader /              *)
(* JsonLinesStream / JsonLinesSink of src/src/asynclib.rs.                 *)
(*                                                                         *)
(* Bytes are one-character strings; a byte stream is a sequence of them.   *)
(* The JSON codec (serde_json) is modelled at the byte level for four      *)
(* record types: u32, Vec<u32>, String and f64, plus a map whose key is    *)
(* not a string (the value serde_json refuses to encode).                  *)
(***************************************************************************)
EXTENDS Integers, Sequences, FiniteSets, TLC

\* ------------------------------------------------------------------ bounds
MaxItems == 2       \* records submitted to one writer or sink
MaxLines == 3       \* lines of an arbitrary input stream
MaxAppend == 1      \* times the input grows after it was opened

\* reads and pulls of one run that returned a result: every line and the
\* end of the input, twice
\* lines of an input of malformed records
MaxBadLines == 2
\* seeks and raw writes made on the underlying output between framed writes
MaxRaw == 2
MaxPulls == MaxLines + MaxAppend + 2

\* ------------------------------------------------------------------- bytes
NL == "\n"
CR == "\r"
QUOTE == "\""
BSLASH == "\\"
SP == " "

Digits == <<"0", "1", "2", "3", "4", "5", "6", "7", "8", "9">>

IsDigit(c) == \E i \in 1..10 : Digits[i] = c

DigitVal(c) == (CHOOSE i \in 1..10 : Digits[i] = c) - 1

\* JSON whitespace as serde_json's parse_whitespace skips it
IsWs(c) == c \in {SP, NL, CR, "\t"}

RECURSIVE Concat(_)
Concat(ss) == IF ss = <<>> THEN <<>> ELSE Head(ss) \o Concat(Tail(ss))

RECURSIVE CountByte(_, _)
CountByte(s, c) ==
    IF s = <<>> THEN 0
    ELSE (IF Head(s) = c THEN 1 ELSE 0) + CountByte(Tail(s), c)

IsPrefix(p, s) == Len(p) <= Len(s) /\ SubSeq(s, 1, Len(p)) = p

Drop(s, k) == SubSeq(s, k + 1, Len(s))

Take(s, k) == SubSeq(s, 1, k)

\* ------------------------------------------------------------------ values
\* A record value: a u32, a Vec<u32>, a String (a sequence of characters) or
\* a map keyed by a non-string (which serde_json cannot encode).
Num(n) == [t |-> "num", n |-> n, xs |-> <<>>]
Vec(xs) == [t |-> "seq", n |-> 0, xs |-> xs]
Str(cs) == [t |-> "str", n |-> 0, xs |-> cs]
BadMap == [t |-> "map", n |-> 0, xs |-> <<>>]
\* A finite f64 n.xs (xs its fraction digits, no trailing zero), and
\* f64::INFINITY
Float(n, xs) == [t |-> "f64", n |-> n, xs |-> xs]
Inf == [t |-> "inf", n |-> 0, xs |-> <<>>]

\* The Rust types read and written: u32, Vec<u32>, String, f64
Types == {"num", "seq", "str", "f64"}

TypeOf(v) == IF v.t = "inf" THEN "f64" ELSE v.t

\* ----------------------------------------------------------------- encoder
\* itoa: the decimal digits of n, most significant first
RECURSIVE Dec(_)
Dec(n) == IF n < 10 THEN <<Digits[n + 1]>> ELSE Dec(n \div 10) \o <<Digits[(n % 10) + 1]>>

RECURSIVE JoinNums(_)
JoinNums(xs) ==
    IF xs = <<>> THEN <<>>
    ELSE IF Len(xs) = 1 THEN Dec(xs[1])
    ELSE Dec(xs[1]) \o <<",">> \o JoinNums(Tail(xs))

\* ryu: the fraction digits of a finite float, "0" when it has none
RECURSIVE FracDigits(_)
FracDigits(xs) ==
    IF xs = <<>> THEN <<>> ELSE <<Digits[Head(xs) + 1]>> \o FracDigits(Tail(xs))

\* serde_json's string escaping (format_escaped_str_contents)
EscapeChar(c) ==
    IF c = NL THEN <<BSLASH, "n">>
    ELSE IF c = CR THEN <<BSLASH, "r">>
    ELSE IF c = QUOTE THEN <<BSLASH, QUOTE>>
    ELSE IF c = BSLASH THEN <<BSLASH, BSLASH>>
    ELSE <<c>>

RECURSIVE EscapeStr(_)
EscapeStr(cs) == IF cs = <<>> THEN <<>> ELSE EscapeChar(Head(cs)) \o EscapeStr(Tail(cs))

\* Whether serde_json can encode the value (a map key must be a string)
Encodable(v) == v.t # "map"

\* The bytes the compact serializer emits for v (serialize_f64 writes null for
\* a float that is not finite); for a value it cannot encode, the bytes it
\* emits before it meets the offending key (the opening brace).
Emitted(v) ==
    CASE v.t = "num" -> Dec(v.n)
      [] v.t = "seq" -> <<"[">> \o JoinNums(v.xs) \o <<"]">>
      [] v.t = "str" -> <<QUOTE>> \o EscapeStr(v.xs) \o <<QUOTE>>
      [] v.t = "f64" -> Dec(v.n) \o <<".">>
                          \o (IF v.xs = <<>> THEN <<"0">> ELSE FracDigits(v.xs))
      [] v.t = "inf" -> <<"n", "u", "l", "l">>
      [] OTHER -> <<"{">>

\* serde_json::to_vec(value): all the bytes or an encode error, nothing between
to_vec(v) == IF Encodable(v) THEN [ok |-> TRUE, bytes |-> Emitted(v)]
             ELSE [ok |-> FALSE, bytes |-> <<>>]

\* The line of one record: buf = to_vec(value); buf.push(b'\n')
Line(v) == to_vec(v).bytes \o <<NL>>

RECURSIVE Lines(_)
Lines(vs) == IF vs = <<>> THEN <<>> ELSE Line(Head(vs)) \o Lines(Tail(vs))

\* ------------------------------------------------------------------ parser
\* serde_json::from_str::<T> on the model's bytes. A result is
\* [ok, kind, v, next]: kind is the std::io::ErrorKind the serde_json error
\* converts to ("UnexpectedEof" for its Eof category, "InvalidData" for its
\* Syntax and Data categories), next the index of the first unread byte.
POk(v, next) == [ok |-> TRUE, kind |-> "", v |-> v, next |-> next]

PErr(kind) == [ok |-> FALSE, kind |-> kind, v |-> Num(0), next |-> 0]

\* parse_whitespace: the index of the first non-whitespace byte at or after i
SkipWs(s, i) ==
    CHOOSE j \in i..(Len(s) + 1) :
        /\ (j = Len(s) + 1 \/ ~IsWs(s[j]))
        /\ \A k \in i..(j - 1) : IsWs(s[k])

\* the index after the run of digits that starts at i
DigitsEnd(s, i) ==
    CHOOSE j \in i..(Len(s) + 1) :
        /\ (j = Len(s) + 1 \/ ~IsDigit(s[j]))
        /\ \A k \in i..(j - 1) : IsDigit(s[k])

RECURSIVE DigitsValue(_, _, _)
DigitsValue(s, i, j) ==
    IF j <= i THEN 0 ELSE DigitsValue(s, i, j - 1) * 10 + DigitVal(s[j - 1])

\* The digits s[i..j-1] without the zeros at their end
RECURSIVE Fraction(_, _, _)
Fraction(s, i, j) ==
    IF j <= i THEN <<>>
    ELSE IF s[j - 1] = "0" THEN Fraction(s, i, j - 1)
    ELSE [k \in 1..(j - i) |-> DigitVal(s[i + k - 1])]

\* parse_decimal after the integer part n, s[j] the ".": at least one digit
\* must follow
ParseDecimal(s, n, j) ==
    LET k == DigitsEnd(s, j + 1) IN
    IF k = j + 1
    THEN IF k > Len(s) THEN PErr("UnexpectedEof") ELSE PErr("InvalidData")
    ELSE POk(Float(n, Fraction(s, j + 1, k)), k)

\* parse_integer at a digit: a leading 0 followed by a digit is InvalidNumber;
\* a "." after the digits makes the number a float
ParseInteger(s, i) ==
    LET j == IF s[i] = "0" THEN i + 1 ELSE DigitsEnd(s, i) IN
    IF s[i] = "0" /\ j <= Len(s) /\ IsDigit(s[j]) THEN PErr("InvalidData")
    ELSE IF j <= Len(s) /\ s[j] = "." THEN ParseDecimal(s, DigitsValue(s, i, j), j)
    ELSE POk(Num(DigitsValue(s, i, j)), j)

\* parse_str after the opening quote: the characters up to the closing quote
RECURSIVE ParseStrBody(_, _, _)
ParseStrBody(s, i, acc) ==
    IF i > Len(s) THEN PErr("UnexpectedEof")
    ELSE IF s[i] = QUOTE THEN POk(Str(acc), i + 1)
    ELSE IF s[i] = BSLASH
    THEN IF i + 1 > Len(s) THEN PErr("UnexpectedEof")
         ELSE IF s[i + 1] = "n" THEN ParseStrBody(s, i + 2, Append(acc, NL))
         ELSE IF s[i + 1] = "r" THEN ParseStrBody(s, i + 2, Append(acc, CR))
         ELSE IF s[i + 1] = "t" THEN ParseStrBody(s, i + 2, Append(acc, "\t"))
         ELSE IF s[i + 1] \in {QUOTE, BSLASH, "/"}
         THEN ParseStrBody(s, i + 2, Append(acc, s[i + 1]))
         ELSE PErr("InvalidData")
    ELSE IF s[i] \in {NL, CR, "\t"} THEN PErr("InvalidData")
    ELSE ParseStrBody(s, i + 1, Append(acc, s[i]))

\* Err(err) => return err, Ok(v) => invalid_type(v, exp): the value that was
\* parsed is of the wrong type; the error of a value that does not parse is
\* returned as it is
InvalidTypeOf(r) == IF r.ok THEN PErr("InvalidData") ELSE r

\* peek_invalid_type at byte i, which does not start a value of the wanted type
PeekInvalidType(s, i) ==
    IF IsDigit(s[i]) THEN InvalidTypeOf(ParseInteger(s, i))
    ELSE IF s[i] = "n"
    THEN IF i + 3 <= Len(s) THEN PErr("InvalidData")
         ELSE IF SubSeq(s, i + 1, Len(s)) = SubSeq(<<"u", "l", "l">>, 1, Len(s) - i)
         THEN PErr("UnexpectedEof")
         ELSE PErr("InvalidData")
    ELSE IF s[i] = QUOTE THEN InvalidTypeOf(ParseStrBody(s, i + 1, <<>>))
    ELSE PErr("InvalidData")

\* deserialize_u32: a float is an invalid type for the u32 visitor
AsU32(r) == IF r.ok /\ r.v.t = "f64" THEN PErr("InvalidData") ELSE r

\* deserialize_f64: an integer is taken as the float of that value
AsF64(r) == IF r.ok /\ r.v.t = "num" THEN POk(Float(r.v.n, <<>>), r.next) ELSE r

\* the number at byte j, the first byte that is not whitespace
ParseNum(s, j) ==
    IF j > Len(s) THEN PErr("UnexpectedEof")
    ELSE IF IsDigit(s[j]) THEN ParseInteger(s, j)
    ELSE PeekInvalidType(s, j)

ParseU32(s, i) == AsU32(ParseNum(s, SkipWs(s, i)))

ParseF64(s, i) == AsF64(ParseNum(s, SkipWs(s, i)))

\* deserialize_string
ParseString(s, i) ==
    LET j == SkipWs(s, i) IN
    IF j > Len(s) THEN PErr("UnexpectedEof")
    ELSE IF s[j] = QUOTE THEN ParseStrBody(s, j + 1, <<>>)
    ELSE PeekInvalidType(s, j)

\* SeqAccess::next_element_seed repeated by Vec's visitor, then end_seq:
\* i is the first unread byte, first whether no element was read yet
RECURSIVE ParseElements(_, _, _, _)
ParseElements(s, i, first, acc) ==
    LET j == SkipWs(s, i) IN
    IF j > Len(s) THEN PErr("UnexpectedEof")
    ELSE IF s[j] = "]" THEN POk(Vec(acc), j + 1)
    ELSE IF first
    THEN LET e == ParseU32(s, j) IN
         IF e.ok THEN ParseElements(s, e.next, FALSE, Append(acc, e.v.n)) ELSE e
    ELSE IF s[j] = ","
    THEN LET k == SkipWs(s, j + 1) IN
         IF k > Len(s) THEN PErr("UnexpectedEof")
         ELSE IF s[k] = "]" THEN PErr("InvalidData")
         ELSE LET e == ParseU32(s, k) IN
              IF e.ok THEN ParseElements(s, e.next, FALSE, Append(acc, e.v.n)) ELSE e
    ELSE PErr("InvalidData")

\* deserialize_seq
ParseSeq(s, i) ==
    LET j == SkipWs(s, i) IN
    IF j > Len(s) THEN PErr("UnexpectedEof")
    ELSE IF s[j] = "[" THEN ParseElements(s, j + 1, TRUE, <<>>)
    ELSE PeekInvalidType(s, j)

\* from_str::<T>(s): T::deserialize, then Deserializer::end (only whitespace
\* may follow the value)
from_str(T, s) ==
    LET r == CASE T = "num" -> ParseU32(s, 1)
               [] T = "seq" -> ParseSeq(s, 1)
               [] T = "f64" -> ParseF64(s, 1)
               [] OTHER -> ParseString(s, 1)
    IN IF ~r.ok THEN r
       ELSE IF SkipWs(s, r.next) <= Len(s) THEN PErr("InvalidData")
       ELSE r

\* ------------------------------------------------------------------- state
VARIABLES
    wkind,      \* the write wrapper that owns the output: "sync" (JsonLinesWriter),
                \* "ext" (a bare writer used through WriteExt), "async"
                \* (AsyncJsonLinesWriter) or "sink" (JsonLinesSink); for the
                \* functions that take a path, whether the path names a file:
                \* "file" or "nofile"
    out,        \* the content of the underlying output
    wpos,       \* the position of the underlying output: where its next byte goes
    nflush,     \* calls of the underlying output's flush made by the last step
    nshut,      \* calls of the underlying output's shutdown made by the last step
    buffer,     \* JsonLinesSink.buffer: [some |-> FALSE] is None
    offset,     \* JsonLinesSink.offset
    pc,         \* the sink poll that is inside its drain loop, or "idle"
    wres,       \* what the last write-side operation returned: [op, r]
    accepted,   \* history: the values whose write returned Ok
    sent,       \* history: the items whose start_send returned Ok
    pre,        \* history: the output as it was when the sink was created
    nsub,       \* history: values submitted so far, whatever the outcome
    clean,      \* history: no write has failed or been abandoned so far
    ready,      \* history: poll_ready returned Ready(Ok) and no start_send followed
    closed,     \* history: poll_close returned Ready(Ok)
    rawops,     \* history: the seeks and writes made on the underlying output
                \* itself, each with the number of values accepted before it
    rkind,      \* the read wrapper that owns the input: "reader" (JsonLinesReader),
                \* "iter" (Iter), "areader" (AsyncJsonLinesReader), "stream"
                \* (JsonLinesStream), or "none"
    inp,        \* the bytes of the underlying input that exist so far
    pos,        \* how many of them the underlying reader has handed out
    held,       \* the part of a line an unfinished asynchronous line read holds
    infl,       \* the target type of the read() future in flight, or "none"
    rtype,      \* the target type T of the Iter / JsonLinesStream, or "none"
    rres,       \* what the last read-side operation returned
    npull,      \* history: reads and pulls that returned a result (not Pending)
    nappend,    \* history: times the input grew after it was opened
    rclean      \* history: no read met an I/O error or was abandoned with bytes held

wvars == <<wkind, out, wpos, nflush, nshut, buffer, offset, pc, wres, accepted, sent,
           pre, nsub, clean, ready, closed, rawops>>

rvars == <<rkind, inp, pos, held, infl, rtype, rres, npull, nappend, rclean>>

vars == <<wvars, rvars>>

\* The values a caller hands to the writers
Values == {Num(120), Vec(<<1, 12>>), Str(<<"a", NL>>), Float(1, <<5>>), Inf, BadMap}

None == [some |-> FALSE, bytes |-> <<>>]

Some(b) == [some |-> TRUE, bytes |-> b]

\* What a write-side operation returned: intr is history, an underlying write
\* of the operation reported ErrorKind::Interrupted
Res(op, r) == [op |-> op, r |-> r, items |-> <<>>, intr |-> FALSE]

\* lists of at most n values
RECURSIVE ListsUpTo(_)
ListsUpTo(n) ==
    IF n = 0 THEN {<<>>}
    ELSE ListsUpTo(n - 1) \cup
         {Append(l, v) : l \in {m \in ListsUpTo(n - 1) : Len(m) = n - 1}, v \in Values}

\* ------------------------------------------------------- underlying writer
\* std::io::Write::write_all(bytes) on the underlying output: every byte is
\* taken, or an I/O error ends it after a proper prefix was taken.
write_all(bytes) ==
    {[bytes |-> Take(bytes, k), r |-> "IoErr"] : k \in 0..(Len(bytes) - 1)}
        \cup {[bytes |-> bytes, r |-> "Ok"]}

\* serde_json::to_writer(&mut inner, value): the serializer writes to the
\* output as it goes; an I/O error stops it anywhere, an encode error stops it
\* where the value's offending part is met.
to_writer(v) ==
    {o \in write_all(Emitted(v)) : o.r = "IoErr"}
        \cup {[bytes |-> Emitted(v), r |-> IF Encodable(v) THEN "Ok" ELSE "EncErr"]}

\* ------------------------------------------------------ JsonLinesWriter
\* write that leaves out the line terminator
write_unterminated(v) == to_writer(v)

\* JsonLinesWriter::write: the outcomes [bytes appended, result] of
\*     serde_json::to_writer(&mut self.inner, value)?;
\*     self.inner.write_all(b"\n")?;
write(v) ==
    {o \in to_writer(v) : o.r # "Ok"}
        \cup {[bytes |-> o.bytes \o n.bytes, r |-> n.r] :
                o \in {w \in to_writer(v) : w.r = "Ok"}, n \in write_all(<<NL>>)}

\* A loop that goes on with the next item after a failure and returns the
\* first error
RECURSIVE ForEachWrite_skip(_)
ForEachWrite_skip(items) ==
    IF items = <<>> THEN {[bytes |-> <<>>, r |-> "Ok", n |-> 0]}
    ELSE {[bytes |-> o.bytes \o rest.bytes,
           r |-> IF o.r = "Ok" THEN rest.r ELSE o.r,
           n |-> IF o.r = "Ok" THEN rest.n + 1 ELSE 0] :
             o \in write(Head(items)), rest \in ForEachWrite_skip(Tail(items))}

\* for value in items { self.write(&value)?; }: the outcomes
\* [bytes appended, result, n = items written before the loop ended]
RECURSIVE ForEachWrite(_)
ForEachWrite(items) ==
    IF items = <<>> THEN {[bytes |-> <<>>, r |-> "Ok", n |-> 0]}
    ELSE {[bytes |-> o.bytes, r |-> o.r, n |-> 0] : o \in {w \in write(Head(items)) : w.r # "Ok"}}
         \cup {[bytes |-> o.bytes \o rest.bytes, r |-> rest.r, n |-> rest.n + 1] :
                 o \in {w \in write(Head(items)) : w.r = "Ok"},
                 rest \in ForEachWrite(Tail(items))}

\* JsonLinesWriter::write_all
JsonLinesWriter_write_all(items) == ForEachWrite(items)

\* An extension method that reports an encode error as an I/O error
write_json_lines_io(items) ==
    {[bytes |-> o.bytes, r |-> IF o.r = "EncErr" THEN "IoErr" ELSE o.r, n |-> o.n] :
        o \in ForEachWrite(items)}

\* WriteExt::write_json_lines, the same loop written out on the bare writer:
\*     for value in items {
\*         serde_json::to_writer(&mut *self, &value)?;
\*         self.write_all(b"\n")?;
\*     }
RECURSIVE write_json_lines(_)
write_json_lines(items) ==
    IF items = <<>> THEN {[bytes |-> <<>>, r |-> "Ok", n |-> 0]}
    ELSE LET v == Head(items)
             enc == to_writer(v)
             one == {o \in enc : o.r # "Ok"}
                    \cup {[bytes |-> o.bytes \o n.bytes, r |-> n.r] :
                            o \in {w \in enc : w.r = "Ok"}, n \in write_all(<<NL>>)}
         IN {[bytes |-> o.bytes, r |-> o.r, n |-> 0] : o \in {w \in one : w.r # "Ok"}}
            \cup {[bytes |-> o.bytes \o rest.bytes, r |-> rest.r, n |-> rest.n + 1] :
                    o \in {w \in one : w.r = "Ok"},
                    rest \in write_json_lines(Tail(items))}

\* AsyncJsonLinesWriter::write that leaves out buf.push(b'\n')
async_write_unterminated(v) ==
    IF ~to_vec(v).ok THEN {[bytes |-> <<>>, r |-> "EncErr"]}
    ELSE write_all(to_vec(v).bytes)

\* AsyncJsonLinesWriter::write: the outcomes of
\*     let mut buf = serde_json::to_vec(value)?;
\*     buf.push(b'\n');
\*     self.inner.write_all(&buf).await?;
\* "Dropped" is the future abandoned while write_all was pending.
async_write(v) ==
    IF ~to_vec(v).ok THEN {[bytes |-> <<>>, r |-> "EncErr"]}
    ELSE write_all(Line(v))
         \cup {[bytes |-> Take(Line(v), k), r |-> "Dropped"] : k \in 0..(Len(Line(v)) - 1)}

\* std::io::Write::write_all, which JsonLinesWriter::write and
\* serde_json::to_writer call on the underlying writer, calls write again when
\* write returned an error of kind Interrupted (Err(ref e) if
\* e.is_interrupted() => {}); tokio's write_all returns every error. Whether
\* an underlying write of the operation op with the outcome o may have
\* reported Interrupted: not when the operation made no write.
Interrupted(op, o) ==
    IF op \in {"write", "write_all", "write_json_lines"} /\ ~(o.bytes = <<>> /\ o.r = "Ok")
    THEN BOOLEAN ELSE {FALSE}

\* A write of the bytes b on an output with the content s at the position p:
\* the bytes replace what is there and extend the content past its end
Put(s, p, b) == Take(s, p) \o b \o Drop(s, p + Len(b))

\* A wrapper that keeps a position of its own, the end of what it has seen
\* written, and writes there
Wrote_cached(op, o, vs) ==
    /\ out' = out \o o.bytes
    /\ wpos' = Len(out')
    /\ wres' = Res(op, o.r)
    /\ accepted' = accepted \o vs
    /\ clean' = (clean /\ o.r = "Ok")

\* The effect of a record-writing operation on the model's state
Wrote(op, o, vs) ==
    /\ out' = Put(out, wpos, o.bytes)
    /\ wpos' = wpos + Len(o.bytes)
    /\ \E b \in Interrupted(op, o) : wres' = [Res(op, o.r) EXCEPT !.intr = b]
    /\ accepted' = accepted \o vs
    /\ clean' = (clean /\ o.r = "Ok")

\* The effect of a bulk operation that was handed items: as Wrote, and the
\* result remembers the items of the call
WroteItems(op, o, items) ==
    /\ out' = Put(out, wpos, o.bytes)
    /\ wpos' = wpos + Len(o.bytes)
    /\ \E b \in Interrupted(op, o) :
         wres' = [Res(op, o.r) EXCEPT !.items = items, !.intr = b]
    /\ accepted' = accepted \o Take(items, o.n)
    /\ clean' = (clean /\ o.r = "Ok")

\* write that flushes the underlying writer after the record
Write_flushing ==
    /\ wkind = "sync"
    /\ nsub < MaxItems
    /\ \E v \in Values : \E o \in write(v) :
         /\ Wrote("write", o, IF o.r = "Ok" THEN <<v>> ELSE <<>>)
         /\ nsub' = nsub + 1
    /\ nflush' = 1 /\ nshut' = 0
    /\ UNCHANGED <<wkind, buffer, offset, pc, sent, pre, ready, closed, rawops, rvars>>

\* JsonLinesWriter::write
Write ==
    /\ wkind = "sync"
    /\ nsub < MaxItems
    /\ \E v \in Values : \E o \in write(v) :
         /\ Wrote("write", o, IF o.r = "Ok" THEN <<v>> ELSE <<>>)
         /\ nsub' = nsub + 1
    /\ nflush' = 0 /\ nshut' = 0
    /\ UNCHANGED <<wkind, buffer, offset, pc, sent, pre, ready, closed, rawops, rvars>>

WriteAll ==
    /\ wkind = "sync"
    /\ \E items \in ListsUpTo(MaxItems - nsub) : \E o \in JsonLinesWriter_write_all(items) :
         /\ WroteItems("write_all", o, items)
         /\ nsub' = nsub + Len(items)
    /\ nflush' = 0 /\ nshut' = 0
    /\ UNCHANGED <<wkind, buffer, offset, pc, sent, pre, ready, closed, rawops, rvars>>

WriteJsonLines ==
    /\ wkind = "ext"
    /\ \E items \in ListsUpTo(MaxItems - nsub) : \E o \in write_json_lines(items) :
         /\ WroteItems("write_json_lines", o, items)
         /\ nsub' = nsub + Len(items)
    /\ nflush' = 0 /\ nshut' = 0
    /\ UNCHANGED <<wkind, buffer, offset, pc, sent, pre, ready, closed, rawops, rvars>>

AsyncWrite ==
    /\ wkind = "async"
    /\ nsub < MaxItems
    /\ \E v \in Values : \E o \in async_write(v) :
         /\ Wrote("async_write", o, IF o.r = "Ok" THEN <<v>> ELSE <<>>)
         /\ nsub' = nsub + 1
    /\ nflush' = 0 /\ nshut' = 0
    /\ UNCHANGED <<wkind, buffer, offset, pc, sent, pre, ready, closed, rawops, rvars>>

\* JsonLinesWriter::flush / AsyncJsonLinesWriter::flush: self.inner.flush()
Flush ==
    /\ wkind \in {"sync", "ext", "async"}
    /\ nflush' = 1
    /\ nshut' = 0
    /\ \E r \in {"Ok", "IoErr"} : wres' = Res("flush", r)
    /\ UNCHANGED <<wkind, out, wpos, buffer, offset, pc, accepted, sent, pre, nsub, clean,
                   ready, closed, rawops, rvars>>

\* AsyncJsonLinesWriter::into_sink: JsonLinesSink::new(self.inner)
IntoSink ==
    /\ wkind = "async"
    /\ wkind' = "sink"
    /\ buffer' = None
    /\ offset' = 0
    /\ wres' = Res("into_sink", "Ok")
    /\ pre' = out
    /\ nflush' = 0 /\ nshut' = 0
    /\ UNCHANGED <<out, wpos, pc, accepted, sent, nsub, clean, ready, closed, rawops, rvars>>

\* The bytes of a write made on the underlying output itself
RawData == {<<"X", NL>>}

\* A wrapper whose underlying output can be reached between its writes:
\* AsyncJsonLinesWriter (get_mut, get_pin_mut, into_inner), JsonLinesWriter
\* (into_inner, and new on the writer handed back: the wrapper's only field is
\* the writer), and a bare writer used through WriteExt
Reachable == wkind \in {"sync", "ext", "async"}

\* A write of raw bytes on the underlying output, the wrapper bypassed
RawWrite ==
    /\ Reachable
    /\ Len(rawops) < MaxRaw
    /\ \E x \in RawData :
         /\ out' = Put(out, wpos, x)
         /\ wpos' = wpos + Len(x)
         /\ rawops' = Append(rawops, [op |-> "write", at |-> Len(accepted), x |-> x, p |-> 0])
    /\ wres' = Res("raw_write", "Ok")
    /\ nflush' = 0 /\ nshut' = 0
    /\ UNCHANGED <<wkind, buffer, offset, pc, accepted, sent, pre, nsub, clean, ready,
                   closed, rvars>>

\* A seek of the underlying output: to its start, to the start of its second
\* byte, or to its end
Seek ==
    /\ Reachable
    /\ Len(rawops) < MaxRaw
    /\ \E p \in {0, 1, Len(out)} :
         /\ p <= Len(out)
         /\ p # wpos
         /\ wpos' = p
         /\ rawops' = Append(rawops, [op |-> "seek", at |-> Len(accepted), x |-> <<>>, p |-> p])
    /\ wres' = Res("seek", "Ok")
    /\ nflush' = 0 /\ nshut' = 0
    /\ UNCHANGED <<wkind, out, buffer, offset, pc, accepted, sent, pre, nsub, clean,
                   ready, closed, rvars>>

\* ------------------------------------ write_json_lines, append_json_lines
\* The content of the file once File::create(path) opened it: created empty,
\* or truncated. The mutant keeps the content.
OpenCreate_keeping(content) == content

OpenCreate(content) == <<>>

\* The content of the file once OpenOptions::new().append(true).create(true)
\* .open(path) opened it: created empty, or as it was. The mutant truncates.
OpenAppend_truncating(content) == <<>>

OpenAppend(content) == content

\* let mut fp = BufWriter::new(file); fp.write_json_lines(items)?; fp.flush()
\* The outcomes [bytes that reached the file, result, fl = flush was called]:
\* all the lines and Ok; an I/O error of the file with a part of the bytes;
\* an encode error, after which dropping the BufWriter writes what it holds
\* as far as the file takes it.
BufWriter_write_json_lines(items) ==
    LET full == CHOOSE o \in write_json_lines(items) : o.r # "IoErr" IN
    IF full.r = "Ok"
    THEN {[bytes |-> full.bytes, r |-> "Ok", fl |-> 1]}
         \cup {[bytes |-> Take(full.bytes, k), r |-> "IoErr", fl |-> f] :
                 k \in 0..(Len(full.bytes) - 1), f \in {0, 1}}
    ELSE {[bytes |-> Take(full.bytes, k), r |-> full.r, fl |-> 0] :
                 k \in 0..Len(full.bytes)}
         \cup {[bytes |-> Take(full.bytes, k), r |-> "IoErr", fl |-> 0] :
                 k \in 0..(Len(full.bytes) - 1)}

IsPath == wkind \in {"nofile", "file"}

\* The path could not be opened: `?` returns the error, nothing is written
OpenFails(op, items) ==
    /\ wres' = [Res(op, "IoErr") EXCEPT !.items = items]
    /\ clean' = FALSE
    /\ nflush' = 0
    /\ UNCHANGED <<wkind, out, pre, accepted>>

\* The file was opened with the content base and the call ran with outcome o.
\* History: accepted are the items of the successful calls since the file
\* had the content pre.
Opened(op, items, base, o, fresh) ==
    /\ wkind' = "file"
    /\ out' = base \o o.bytes
    /\ wres' = [Res(op, o.r) EXCEPT !.items = items]
    /\ nflush' = o.fl
    /\ clean' = (clean /\ o.r = "Ok")
    /\ IF o.r # "Ok" THEN UNCHANGED <<pre, accepted>>
       ELSE IF fresh THEN pre' = <<>> /\ accepted' = items
       ELSE pre' = pre /\ accepted' = accepted \o items

\* write_json_lines(path, items). The function opens and closes a handle of
\* its own: wpos is not involved.
FsWriteJsonLines ==
    /\ IsPath
    /\ \E items \in ListsUpTo(MaxItems - nsub) :
         /\ nsub' = nsub + Len(items)
         /\ \/ OpenFails("fs_write_json_lines", items)
            \/ \E o \in BufWriter_write_json_lines(items) :
                 Opened("fs_write_json_lines", items, OpenCreate(out), o, TRUE)
    /\ nshut' = 0
    /\ UNCHANGED <<wpos, buffer, offset, pc, sent, ready, closed, rawops, rvars>>

\* append_json_lines that leaves a missing file missing when there is
\* nothing to append
AppendJsonLines_lazy ==
    /\ IsPath
    /\ \E items \in ListsUpTo(MaxItems - nsub) :
         /\ nsub' = nsub + Len(items)
         /\ \/ OpenFails("append_json_lines", items)
            \/ /\ items # <<>>
               /\ \E o \in BufWriter_write_json_lines(items) :
                    Opened("append_json_lines", items, OpenAppend(out), o, FALSE)
            \/ /\ items = <<>>
               /\ wres' = [Res("append_json_lines", "Ok") EXCEPT !.items = items]
               /\ nflush' = 0
               /\ UNCHANGED <<wkind, out, pre, accepted, clean>>
    /\ nshut' = 0
    /\ UNCHANGED <<wpos, buffer, offset, pc, sent, ready, closed, rawops, rvars>>

\* append_json_lines(path, items): the file is opened in append mode, every
\* write goes to its end
AppendJsonLines ==
    /\ IsPath
    /\ \E items \in ListsUpTo(MaxItems - nsub) :
         /\ nsub' = nsub + Len(items)
         /\ \/ OpenFails("append_json_lines", items)
            \/ \E o \in BufWriter_write_json_lines(items) :
                 Opened("append_json_lines", items, OpenAppend(out), o, FALSE)
    /\ nshut' = 0
    /\ UNCHANGED <<wpos, buffer, offset, pc, sent, ready, closed, rawops, rvars>>

\* --------------------------------------------------------- JsonLinesSink
\* What the underlying writer may answer to poll_write(cx, slice): Pending,
\* an error, or Ready(Ok(n)) with n of the slice's bytes taken (n = 0
\* included).
PollWriteAnswers(slice) ==
    {[k |-> "Pending", n |-> 0], [k |-> "IoErr", n |-> 0]}
        \cup {[k |-> "Ok", n |-> n] : n \in 0..Len(slice)}

\* The buffer is cleared as soon as one write took any byte of it
AfterWrite_early(buf, off, written) ==
    IF written > 0 \/ off + written = Len(buf.bytes)
    THEN [buffer |-> None, offset |-> off + written, done |-> TRUE]
    ELSE [buffer |-> buf, offset |-> off + written, done |-> FALSE]

\* The offset is left where it was after a partial write
AfterWrite_stuck(buf, off, written) ==
    IF off + written = Len(buf.bytes)
    THEN [buffer |-> None, offset |-> off + written, done |-> TRUE]
    ELSE [buffer |-> buf, offset |-> off, done |-> FALSE]

\* The buffer is kept when its last byte was written
AfterWrite_kept(buf, off, written) ==
    [buffer |-> buf, offset |-> off + written, done |-> off + written = Len(buf.bytes)]

\* The body of the loop in poll_flush_buffer after poll_write returned
\* Ready(Ok(written)):
\*     *this.offset += written;
\*     if *this.offset == buffer.len() { break; }      (then *this.buffer = None)
AfterWrite(buf, off, written) ==
    IF off + written = Len(buf.bytes)
    THEN [buffer |-> None, offset |-> off + written, done |-> TRUE]
    ELSE [buffer |-> buf, offset |-> off + written, done |-> FALSE]

\* The slice starts one byte late once bytes were written
Unwritten_skip(buf, off) == Drop(buf.bytes, IF off > 0 THEN off + 1 ELSE 0)

\* The slice poll_flush_buffer hands to poll_write: &buffer[*this.offset..]
Unwritten(buf, off) == Drop(buf.bytes, off)

\* A poll that goes on with its loop after an error of the underlying writer
Return_retrying(op, r) ==
    /\ pc' = IF r = "IoErr" THEN op ELSE "idle"
    /\ wres' = Res(op, r)
    /\ ready' = IF op = "poll_ready" /\ r = "Ok" THEN TRUE ELSE ready
    /\ closed' = (op = "poll_close" /\ r = "Ok")

\* A poll returns r to its caller
Return(op, r) ==
    /\ pc' = "idle"
    /\ wres' = Res(op, r)
    /\ ready' = IF op = "poll_ready" /\ r = "Ok" THEN TRUE ELSE ready
    /\ closed' = (op = "poll_close" /\ r = "Ok")

\* A drain that gives its record up when the underlying write fails
poll_flush_buffer_dropping(op) ==
    \E a \in PollWriteAnswers(Unwritten(buffer, offset)) :
        IF a.k # "Ok"
        THEN /\ Return(op, a.k)
             /\ buffer' = IF a.k = "IoErr" THEN None ELSE buffer
             /\ UNCHANGED <<out, wpos, offset>>
        ELSE LET s == AfterWrite(buffer, offset, a.n) IN
             /\ out' = Put(out, wpos, Take(Unwritten(buffer, offset), a.n))
             /\ wpos' = wpos + a.n
             /\ buffer' = s.buffer
             /\ offset' = s.offset
             /\ IF s.done /\ op = "poll_ready"
                THEN Return(op, "Ok")
                ELSE /\ pc' = op
                     /\ wres' = Res(op, "Running")
                     /\ UNCHANGED <<ready, closed>>

\* One pass of the loop in poll_flush_buffer, run for the poll op: one
\* poll_write on the unwritten rest of the buffer. Pending and errors return
\* from the poll (ready!, ?); when the last byte is taken the buffer is cleared
\* and poll_flush_buffer returns Ready(Ok(())) to op.
poll_flush_buffer(op) ==
    \E a \in PollWriteAnswers(Unwritten(buffer, offset)) :
        IF a.k # "Ok"
        THEN /\ Return(op, a.k)
             /\ UNCHANGED <<out, wpos, buffer, offset>>
        ELSE LET s == AfterWrite(buffer, offset, a.n) IN
             /\ out' = Put(out, wpos, Take(Unwritten(buffer, offset), a.n))
             /\ wpos' = wpos + a.n
             /\ buffer' = s.buffer
             /\ offset' = s.offset
             /\ IF s.done /\ op = "poll_ready"
                THEN Return(op, "Ok")
                ELSE /\ pc' = op
                     /\ wres' = Res(op, "Running")
                     /\ UNCHANGED <<ready, closed>>

\* A poll may be begun when no poll is inside the drain loop, and the poll
\* that is inside it goes on.
CanRun(op) ==
    /\ wkind = "sink"
    /\ ~closed
    /\ pc \in {"idle", op}

\* poll_ready that is Ready(Ok(())) whether or not the buffer was written
poll_ready_eager ==
    /\ CanRun("poll_ready")
    /\ Return("poll_ready", "Ok")
    /\ nflush' = 0 /\ nshut' = 0
    /\ UNCHANGED <<out, wpos, buffer, offset>>
    /\ UNCHANGED <<wkind, accepted, sent, pre, nsub, clean, rawops, rvars>>

\* Sink::poll_ready: self.poll_flush_buffer(cx)
poll_ready ==
    /\ CanRun("poll_ready")
    /\ IF buffer.some
       THEN poll_flush_buffer("poll_ready")
       ELSE /\ Return("poll_ready", "Ok")
            /\ buffer' = None
            /\ UNCHANGED <<out, wpos, offset>>
    /\ nflush' = 0 /\ nshut' = 0
    /\ UNCHANGED <<wkind, accepted, sent, pre, nsub, clean, rawops, rvars>>

\* start_send that encodes into the buffer: what was encoded before the
\* failure stays there
start_send_streaming ==
    /\ wkind = "sink"
    /\ ~closed
    /\ pc = "idle"
    /\ ready
    /\ nsub < MaxItems
    /\ nsub' = nsub + 1
    /\ ready' = FALSE
    /\ \E item \in Values :
         IF buffer.some
         THEN /\ pc' = "panic"
              /\ wres' = Res("start_send", "Panic")
              /\ UNCHANGED <<buffer, offset, sent>>
         ELSE IF ~to_vec(item).ok
         THEN /\ wres' = Res("start_send", "EncErr")
              /\ buffer' = Some(<<"{">>)
              /\ offset' = 0
              /\ UNCHANGED <<sent, pc>>
         ELSE /\ buffer' = Some(Line(item))
              /\ offset' = 0
              /\ sent' = Append(sent, item)
              /\ wres' = Res("start_send", "Ok")
              /\ UNCHANGED pc
    /\ nflush' = 0 /\ nshut' = 0
    /\ UNCHANGED <<wkind, out, wpos, accepted, pre, clean, closed, rawops, rvars>>

\* start_send that leaves the offset where the last record's drain left it
start_send_keep ==
    /\ wkind = "sink"
    /\ ~closed
    /\ pc = "idle"
    /\ ready
    /\ nsub < MaxItems
    /\ nsub' = nsub + 1
    /\ ready' = FALSE
    /\ \E item \in Values :
         IF buffer.some
         THEN /\ pc' = "panic"
              /\ wres' = Res("start_send", "Panic")
              /\ UNCHANGED <<buffer, offset, sent>>
         ELSE IF ~to_vec(item).ok
         THEN /\ wres' = Res("start_send", "EncErr")
              /\ UNCHANGED <<buffer, offset, sent, pc>>
         ELSE /\ buffer' = Some(Line(item))
              /\ sent' = Append(sent, item)
              /\ wres' = Res("start_send", "Ok")
              /\ UNCHANGED <<pc, offset>>
    /\ nflush' = 0 /\ nshut' = 0
    /\ UNCHANGED <<wkind, out, wpos, accepted, pre, clean, closed, rawops, rvars>>

\* Sink::start_send: the debug assertion, then
\*     let mut buf = serde_json::to_vec(&item)?;
\*     buf.push(b'\n');
\*     *this.buffer = Some(buf);
\*     *this.offset = 0;
\* Called under the Sink protocol: after poll_ready returned Ready(Ok(())).
start_send ==
    /\ wkind = "sink"
    /\ ~closed
    /\ pc = "idle"
    /\ ready
    /\ nsub < MaxItems
    /\ nsub' = nsub + 1
    /\ ready' = FALSE
    /\ \E item \in Values :
         IF buffer.some
         THEN /\ pc' = "panic"
              /\ wres' = Res("start_send", "Panic")
              /\ UNCHANGED <<buffer, offset, sent>>
         ELSE IF ~to_vec(item).ok
         THEN /\ wres' = Res("start_send", "EncErr")
              /\ UNCHANGED <<buffer, offset, sent, pc>>
         ELSE /\ buffer' = Some(Line(item))
              /\ offset' = 0
              /\ sent' = Append(sent, item)
              /\ wres' = Res("start_send", "Ok")
              /\ UNCHANGED pc
    /\ nflush' = 0 /\ nshut' = 0
    /\ UNCHANGED <<wkind, out, wpos, accepted, pre, clean, closed, rawops, rvars>>

\* poll_flush that flushes the underlying writer without draining the buffer
poll_flush_undrained ==
    /\ CanRun("poll_flush")
    /\ nflush' = 1
    /\ \E a \in {"Pending", "IoErr", "Ok"} : Return("poll_flush", a)
    /\ nshut' = 0
    /\ UNCHANGED <<out, wpos, buffer, offset, wkind, accepted, sent, pre, nsub, clean, rawops, rvars>>

\* Sink::poll_flush:
\*     ready!(self.as_mut().poll_flush_buffer(cx))?;
\*     ready!(self.project().inner.poll_flush(cx))?;
poll_flush ==
    /\ CanRun("poll_flush")
    /\ IF buffer.some
       THEN /\ poll_flush_buffer("poll_flush")
            /\ nflush' = 0
       ELSE /\ buffer' = None
            /\ nflush' = 1
            /\ \E a \in {"Pending", "IoErr", "Ok"} : Return("poll_flush", a)
            /\ UNCHANGED <<out, wpos, offset>>
    /\ nshut' = 0
    /\ UNCHANGED <<wkind, accepted, sent, pre, nsub, clean, rawops, rvars>>

\* poll_close that shuts the underlying writer down without draining the buffer
poll_close_undrained ==
    /\ CanRun("poll_close")
    /\ nshut' = 1
    /\ \E a \in {"Pending", "IoErr", "Ok"} : Return("poll_close", a)
    /\ nflush' = 0
    /\ UNCHANGED <<out, wpos, buffer, offset, wkind, accepted, sent, pre, nsub, clean, rawops, rvars>>

\* Sink::poll_close:
\*     ready!(self.as_mut().poll_flush_buffer(cx))?;
\*     ready!(self.project().inner.poll_shutdown(cx))?;
poll_close ==
    /\ CanRun("poll_close")
    /\ IF buffer.some
       THEN /\ poll_flush_buffer("poll_close")
            /\ nshut' = 0
       ELSE /\ buffer' = None
            /\ nshut' = 1
            /\ \E a \in {"Pending", "IoErr", "Ok"} : Return("poll_close", a)
            /\ UNCHANGED <<out, wpos, offset>>
    /\ nflush' = 0
    /\ UNCHANGED <<wkind, accepted, sent, pre, nsub, clean, rawops, rvars>>

\* ------------------------------------------------------------------ inputs
\* The text of a newline-terminated line of an arbitrary input: a u32; a
\* Vec<u32> before a carriage return; nothing
LineBodies == {<<"7">>, <<"[", "]", CR>>, <<>>}

\* The text of a last line that has no newline: a u32; an unfinished Vec<u32>
LastBodies == {<<"7">>, <<"[", "1">>}

\* The lines by which an input grows after it was opened
GrowBodies == {<<"7">>, <<"[", "1">>}

\* inputs of exactly n newline-terminated lines
RECURSIVE Terminated(_)
Terminated(n) ==
    IF n = 0 THEN {<<>>}
    ELSE {s \o b \o <<NL>> : s \in Terminated(n - 1), b \in LineBodies}

\* An input: at most MaxLines lines, the last one with or without its newline
Inputs ==
    UNION {Terminated(n) : n \in 0..MaxLines}
        \cup UNION {{s \o b : s \in Terminated(n), b \in LastBodies} :
                      n \in 0..(MaxLines - 1)}

\* The text of a line of an input of malformed records: a u32; nothing; a
\* string that is not closed; a Vec<u32> that is not closed; a number that
\* ends at its decimal point; a u32 followed by a letter
BadBodies == {<<"7">>, <<>>, <<QUOTE, "a">>, <<"[", "1">>, <<"1", ".">>, <<"7", "x">>}

\* inputs of exactly n newline-terminated lines of these
RECURSIVE BadTerminated(_)
BadTerminated(n) ==
    IF n = 0 THEN {<<>>}
    ELSE {s \o b \o <<NL>> : s \in BadTerminated(n - 1), b \in BadBodies}

\* at most MaxBadLines lines, the last one with or without its newline
BadInputs ==
    UNION {BadTerminated(n) : n \in 0..MaxBadLines}
        \cup UNION {{s \o b : s \in BadTerminated(n), b \in BadBodies \ {<<>>}} :
                      n \in 0..(MaxBadLines - 1)}

\* The text of a line of an input with blank lines: nothing; a space; a
\* carriage return; a u32
BlankBodies == {<<>>, <<SP>>, <<CR>>, <<"7">>}

\* inputs of exactly n newline-terminated lines of these
RECURSIVE BlankTerminated(_)
BlankTerminated(n) ==
    IF n = 0 THEN {<<>>}
    ELSE {s \o b \o <<NL>> : s \in BlankTerminated(n - 1), b \in BlankBodies}

\* at most MaxBadLines lines, the last one with or without its newline
BlankInputs ==
    UNION {BlankTerminated(n) : n \in 0..MaxBadLines}
        \cup UNION {{s \o b : s \in BlankTerminated(n), b \in BlankBodies \ {<<>>}} :
                      n \in 0..(MaxBadLines - 1)}

\* ------------------------------------------------------ underlying reader
\* The line read stops before the newline and leaves it in the input
LineEnd_before(s, p) ==
    LET nl == {i \in (p + 1)..Len(s) : s[i] = NL} IN
    IF nl = {} THEN Len(s) ELSE (CHOOSE i \in nl : \A j \in nl : i <= j) - 1

\* The index of the last byte BufRead::read_line takes when p bytes were
\* handed out: the first newline after p, or the end of the data.
LineEnd(s, p) ==
    LET nl == {i \in (p + 1)..Len(s) : s[i] = NL} IN
    IF nl = {} THEN Len(s) ELSE CHOOSE i \in nl : \A j \in nl : i <= j

\* Nothing but JSON whitespace
Blank(text) == \A i \in 1..Len(text) : IsWs(text[i])

\* A line read that passes over blank lines: they are returned in front of the
\* line that follows them
RECURSIVE read_line_nonblank(_, _)
read_line_nonblank(s, p) ==
    LET line == SubSeq(s, p + 1, LineEnd(s, p)) IN
    IF line # <<>> /\ Blank(line) /\ LineEnd(s, p) < Len(s)
    THEN line \o read_line_nonblank(s, LineEnd(s, p))
    ELSE line

\* A line read that returns whole lines only: what follows the last newline
\* is not a line
read_line_whole(s, p) ==
    IF LineEnd(s, p) > 0 /\ s[LineEnd(s, p)] = NL
    THEN SubSeq(s, p + 1, LineEnd(s, p))
    ELSE <<>>

\* read_line(&mut s): the bytes up to and including the newline, or up to the
\* end of the data; none at the end of the data
read_line(s, p) == SubSeq(s, p + 1, LineEnd(s, p))

\* Lines that keeps the terminator on the line
StripLine_keep(line) == line

\* tokio's Lines::poll_next_line on a complete line: the final "\n" is
\* removed, and then a final "\r"
StripLine(line) ==
    IF line # <<>> /\ line[Len(line)] = NL
    THEN IF Len(line) >= 2 /\ line[Len(line) - 1] = CR
         THEN Take(line, Len(line) - 2)
         ELSE Take(line, Len(line) - 1)
    ELSE line

\* ---------------------------------------------------------------- results
\* r is the shape of the returned value; json tells an error that carries a
\* serde_json::Error from an error of the underlying reader.
RRes(op, r, T, v, kind, json) ==
    [op |-> op, r |-> r, T |-> T, v |-> v, kind |-> kind, json |-> json]

NoVal == Num(0)

\* A conversion that gives every parse error the kind UnexpectedEof
Decode_eof(op, T, text) ==
    LET d == from_str(T, text) IN
    IF d.ok THEN RRes(op, "Ok(Some)", T, d.v, "", FALSE)
    ELSE RRes(op, "Err", T, NoVal, "UnexpectedEof", TRUE)

\* Ok(Some(serde_json::from_str::<T>(&s)?)): the value, or the parse error
\* converted to std::io::Error
Decode(op, T, text) ==
    LET d == from_str(T, text) IN
    IF d.ok THEN RRes(op, "Ok(Some)", T, d.v, "", FALSE)
    ELSE RRes(op, "Err", T, NoVal, d.kind, TRUE)

\* read that takes a line that does not decode for the end of input
read_error_is_end(op, T, line) ==
    IF Len(line) = 0 \/ ~from_str(T, line).ok
    THEN RRes(op, "Ok(None)", T, NoVal, "", FALSE)
    ELSE Decode(op, T, line)

\* read that takes a line of nothing but its newline for the end of input
read_blank_is_end(op, T, line) ==
    IF Len(line) <= 1 THEN RRes(op, "Ok(None)", T, NoVal, "", FALSE)
    ELSE Decode(op, T, line)

\* JsonLinesReader::read / AsyncJsonLinesReader::read once read_line returned
\* the line (r = its length):
\*     if r == 0 { Ok(None) } else { Ok(Some(serde_json::from_str::<T>(&s)?)) }
read(op, T, line) ==
    IF Len(line) = 0 THEN RRes(op, "Ok(None)", T, NoVal, "", FALSE)
    ELSE Decode(op, T, line)

\* An iterator that ends at the first error
transpose_fused(res) ==
    [res EXCEPT !.r = CASE res.r = "Ok(None)" -> "None"
                        [] res.r = "Ok(Some)" -> "Some(Ok)"
                        [] OTHER -> "None"]

\* Option::transpose in Iter::next: self.reader.read().transpose()
transpose(res) ==
    [res EXCEPT !.r = CASE res.r = "Ok(None)" -> "None"
                        [] res.r = "Ok(Some)" -> "Some(Ok)"
                        [] OTHER -> "Some(Err)"]

\* A stream that takes an empty line for the end of input
poll_next_blank_is_end(T, got, line) ==
    IF ~got \/ line = <<>> THEN RRes("poll_next", "None", T, NoVal, "", FALSE)
    ELSE LET d == from_str(T, line) IN
         IF d.ok THEN RRes("poll_next", "Some(Ok)", T, d.v, "", FALSE)
         ELSE RRes("poll_next", "Some(Err)", T, NoVal, d.kind, TRUE)

\* JsonLinesStream::poll_next once poll_next_line is ready: got = FALSE is
\* Ok(None), otherwise line is the line without its terminator
\*     Ok(Some(line)) => Some(serde_json::from_str::<T>(&line).map_err(Into::into)).into(),
\*     Ok(None) => None.into(),
poll_next(T, got, line) ==
    IF ~got THEN RRes("poll_next", "None", T, NoVal, "", FALSE)
    ELSE LET d == from_str(T, line) IN
         IF d.ok THEN RRes("poll_next", "Some(Ok)", T, d.v, "", FALSE)
         ELSE RRes("poll_next", "Some(Err)", T, NoVal, d.kind, TRUE)

\* An error of the underlying reader, handed on as it is (read_line(..)?)
IoError(op, r, T) == RRes(op, r, "none", NoVal, "Other", FALSE)

\* The run is followed until the underlying reader fails, and for one read
\* beyond a read that was abandoned with bytes held
Alive ==
    /\ rres.kind # "Other"
    /\ rclean \/ rres.r = "Dropped" \/ infl # "none"

\* ------------------------------------------------- JsonLinesReader and Iter
\* A blocking line read: the whole line is taken, or the underlying reader
\* fails after k of its bytes were taken.
SyncLineRead(op, T, wrap(_)) ==
    LET line == read_line(inp, pos) IN
    \/ /\ pos' = pos + Len(line)
       /\ rres' = wrap(read(op, T, line))
       /\ UNCHANGED rclean
    \/ \E k \in 0..(IF line = <<>> THEN 0 ELSE Len(line) - 1) :
         /\ pos' = pos + k
         /\ rres' = wrap(IoError(op, "Err", T))
         /\ rclean' = FALSE

Same(res) == res

\* A reader that remembers the end of input: once a read returned no value,
\* every later read returns no value without reading
Read_latched ==
    /\ rkind = "reader"
    /\ Alive
    /\ npull < MaxPulls
    /\ npull' = npull + 1
    /\ IF rres.r = "Ok(None)"
       THEN UNCHANGED <<pos, rres, rclean>>
       ELSE \E T \in Types : SyncLineRead("read", T, Same)
    /\ UNCHANGED <<rkind, inp, held, infl, rtype, nappend, wvars>>

\* A read that also takes the line after its own from the underlying reader
Read_ahead ==
    /\ rkind = "reader"
    /\ Alive
    /\ npull < MaxPulls
    /\ npull' = npull + 1
    /\ \E T \in Types :
         LET line == read_line(inp, pos) IN
         /\ pos' = LineEnd(inp, pos + Len(line))
         /\ rres' = read("read", T, line)
    /\ UNCHANGED <<rkind, inp, held, infl, rtype, nappend, rclean, wvars>>

\* A reader that keeps the target type of its first read: a later read::<T>()
\* decodes its line as that type
Read_sticky ==
    /\ rkind = "reader"
    /\ Alive
    /\ npull < MaxPulls
    /\ npull' = npull + 1
    /\ \E T \in Types :
         LET line == read_line(inp, pos)
             U == IF rres.op = "read" THEN rres.T ELSE T
         IN
         /\ pos' = pos + Len(line)
         /\ rres' = [read("read", U, line) EXCEPT !.T = T]
    /\ UNCHANGED <<rkind, inp, held, infl, rtype, nappend, rclean, wvars>>

\* JsonLinesReader::read::<T>()
Read ==
    /\ rkind = "reader"
    /\ Alive
    /\ npull < MaxPulls
    /\ npull' = npull + 1
    /\ \E T \in Types : SyncLineRead("read", T, Same)
    /\ UNCHANGED <<rkind, inp, held, infl, rtype, nappend, wvars>>

\* JsonLinesReader::iter::<T>()
IntoIter ==
    /\ rkind = "reader"
    /\ Alive
    /\ rkind' = "iter"
    /\ \E T \in Types : rtype' = T
    /\ rres' = RRes("iter", "New", rtype', NoVal, "", FALSE)
    /\ UNCHANGED <<inp, pos, held, infl, npull, nappend, rclean, wvars>>

\* A pull that decodes the next line and leaves it in the reader
IterNext_peek ==
    /\ rkind = "iter"
    /\ Alive
    /\ npull < MaxPulls
    /\ npull' = npull + 1
    /\ rres' = transpose(read("next", rtype, read_line(inp, pos)))
    /\ UNCHANGED <<rkind, inp, pos, held, infl, rtype, nappend, rclean, wvars>>

\* Iter::next
IterNext ==
    /\ rkind = "iter"
    /\ Alive
    /\ npull < MaxPulls
    /\ npull' = npull + 1
    /\ SyncLineRead("next", rtype, transpose)
    /\ UNCHANGED <<rkind, inp, held, infl, rtype, nappend, wvars>>

\* ----------------------------------- AsyncJsonLinesReader, JsonLinesStream
\* One poll of an asynchronous line read that holds `held`: it takes k more
\* bytes of the line and is Pending, or takes the rest and is Ready, or the
\* underlying reader fails.
\* AsyncJsonLinesReader::read::<T>(): the future is created by the first poll;
\* its String and the bytes read so far live in the future.
AsyncRead ==
    /\ rkind = "areader"
    /\ Alive
    /\ npull < MaxPulls
    /\ \E T \in (IF infl = "none" THEN Types ELSE {infl}) :
         LET rest == read_line(inp, pos)
             open == rest = <<>> \/ rest[Len(rest)] # NL
         IN
         \/ \E k \in 0..(IF open THEN Len(rest) ELSE Len(rest) - 1) :
              /\ pos' = pos + k
              /\ held' = held \o Take(rest, k)
              /\ infl' = T
              /\ rres' = RRes("async_read", "Pending", T, NoVal, "", FALSE)
              /\ UNCHANGED <<npull, rclean>>
         \/ /\ pos' = pos + Len(rest)
            /\ held' = <<>>
            /\ infl' = "none"
            /\ rres' = read("async_read", T, held \o rest)
            /\ npull' = npull + 1
            /\ UNCHANGED rclean
         \/ \E k \in 0..(IF rest = <<>> THEN 0 ELSE Len(rest) - 1) :
              /\ pos' = pos + k
              /\ held' = <<>>
              /\ infl' = "none"
              /\ rres' = IoError("async_read", "Err", T)
              /\ npull' = npull + 1
              /\ rclean' = FALSE
    /\ UNCHANGED <<rkind, inp, rtype, nappend, wvars>>

\* A drop of the read() future that discards the rest of its line as well
DropRead_skipping ==
    /\ rkind = "areader"
    /\ infl # "none"
    /\ infl' = "none"
    /\ held' = <<>>
    /\ pos' = LineEnd(inp, pos)
    /\ rclean' = (rclean /\ held = <<>>)
    /\ rres' = RRes("async_read", "Dropped", infl, NoVal, "", FALSE)
    /\ UNCHANGED <<rkind, inp, rtype, npull, nappend, wvars>>

\* The read() future is dropped before it completed: the bytes it took from
\* the underlying reader go with it.
DropRead ==
    /\ rkind = "areader"
    /\ infl # "none"
    /\ infl' = "none"
    /\ held' = <<>>
    /\ rclean' = (rclean /\ held = <<>>)
    /\ rres' = RRes("async_read", "Dropped", infl, NoVal, "", FALSE)
    /\ UNCHANGED <<rkind, inp, pos, rtype, npull, nappend, wvars>>

\* AsyncJsonLinesReader::read_all::<T>(): inner: self.inner.lines()
ReadAll ==
    /\ rkind = "areader"
    /\ Alive
    /\ infl = "none"
    /\ rkind' = "stream"
    /\ \E T \in Types : rtype' = T
    /\ held' = <<>>
    /\ rres' = RRes("read_all", "New", rtype', NoVal, "", FALSE)
    /\ UNCHANGED <<inp, pos, infl, npull, nappend, rclean, wvars>>

\* A stream whose unfinished line is lost when a poll is Pending, as that of a
\* read() future that is dropped
PollNext_restart ==
    /\ rkind = "stream"
    /\ Alive
    /\ npull < MaxPulls
    /\ LET rest == read_line(inp, pos)
           open == rest = <<>> \/ rest[Len(rest)] # NL
       IN
       \/ \E k \in 0..(IF open THEN Len(rest) ELSE Len(rest) - 1) :
            /\ pos' = pos + k
            /\ held' = <<>>
            /\ rres' = RRes("poll_next", "Pending", rtype, NoVal, "", FALSE)
            /\ UNCHANGED <<npull, rclean>>
       \/ /\ pos' = pos + Len(rest)
          /\ held' = <<>>
          /\ rres' = poll_next(rtype, held \o rest # <<>>, StripLine(held \o rest))
          /\ npull' = npull + 1
          /\ UNCHANGED rclean
       \/ \E k \in 0..(IF rest = <<>> THEN 0 ELSE Len(rest) - 1) :
            /\ pos' = pos + k
            /\ held' = <<>>
            /\ rres' = IoError("poll_next", "Some(Err)", rtype)
            /\ npull' = npull + 1
            /\ rclean' = FALSE
    /\ UNCHANGED <<rkind, inp, infl, rtype, nappend, wvars>>

\* JsonLinesStream::poll_next: ready!(self.project().inner.poll_next_line(cx));
\* the Lines value keeps the bytes of an unfinished line between polls.
PollNext ==
    /\ rkind = "stream"
    /\ Alive
    /\ npull < MaxPulls
    /\ LET rest == read_line(inp, pos)
           open == rest = <<>> \/ rest[Len(rest)] # NL
       IN
       \/ \E k \in 0..(IF open THEN Len(rest) ELSE Len(rest) - 1) :
            /\ pos' = pos + k
            /\ held' = held \o Take(rest, k)
            /\ rres' = RRes("poll_next", "Pending", rtype, NoVal, "", FALSE)
            /\ UNCHANGED <<npull, rclean>>
       \/ /\ pos' = pos + Len(rest)
          /\ held' = <<>>
          /\ rres' = poll_next(rtype, held \o rest # <<>>, StripLine(held \o rest))
          /\ npull' = npull + 1
          /\ UNCHANGED rclean
       \/ \E k \in 0..(IF rest = <<>> THEN 0 ELSE Len(rest) - 1) :
            /\ pos' = pos + k
            /\ held' = <<>>
            /\ rres' = IoError("poll_next", "Some(Err)", rtype)
            /\ npull' = npull + 1
            /\ rclean' = FALSE
    /\ UNCHANGED <<rkind, inp, infl, rtype, nappend, wvars>>

\* JsonLinesReader::into_inner / AsyncJsonLinesReader::into_inner: the wrapper
\* is consumed and the underlying reader handed back as it is (self.inner).
\* No read() future is alive: it borrows the wrapper.
IntoInner ==
    /\ rkind \in {"reader", "areader"}
    /\ Alive
    /\ infl = "none"
    /\ rkind' = "inner"
    /\ rres' = RRes("into_inner", "New", "none", NoVal, "", FALSE)
    /\ UNCHANGED <<inp, pos, held, infl, rtype, npull, nappend, rclean, wvars>>

\* A line read on the underlying reader itself, with no wrapper in between:
\* on the reader handed back by into_inner, or through
\* AsyncJsonLinesReader::get_mut / get_pin_mut between two reads. The result
\* carries the raw line as its value.
RawReadLine ==
    /\ rkind \in {"inner", "areader"}
    /\ Alive
    /\ infl = "none"
    /\ npull < MaxPulls
    /\ npull' = npull + 1
    /\ LET line == read_line(inp, pos) IN
       /\ pos' = pos + Len(line)
       /\ rres' = RRes("read_line", "Ok", "none", Str(line), "", FALSE)
    /\ UNCHANGED <<rkind, inp, held, infl, rtype, nappend, rclean, wvars>>

\* More data becomes readable on the underlying input after it had reported
\* its end (the file grows, the peer sends another line).
Grow ==
    /\ rkind # "none"
    /\ Alive
    /\ rres.r \in {"Ok(None)", "None"}
    /\ nappend < MaxAppend
    /\ nappend' = nappend + 1
    /\ \E body \in GrowBodies : inp' = inp \o body \o <<NL>>
    /\ UNCHANGED <<rkind, pos, held, infl, rtype, rres, npull, rclean, wvars>>

\* ----------------------------------------------------------- specification
\* No read wrapper yet
NoReader ==
    /\ rkind = "none"
    /\ inp = <<>>
    /\ pos = 0
    /\ held = <<>>
    /\ infl = "none"
    /\ rtype = "none"
    /\ rres = RRes("none", "New", "none", NoVal, "", FALSE)
    /\ npull = 0
    /\ nappend = 0
    /\ rclean = TRUE

\* A fresh wrapper over an empty output. A sink is JsonLinesSink::new(writer):
\* buffer None, offset 0.
InitWrite ==
    /\ NoReader
    /\ wkind \in {"sync", "ext", "async", "sink"}
    /\ out = <<>>
    /\ wpos = 0
    /\ rawops = <<>>
    /\ nflush = 0
    /\ nshut = 0
    /\ buffer = None
    /\ offset = 0
    /\ pc = "idle"
    /\ wres = Res("new", "Ok")
    /\ accepted = <<>>
    /\ sent = <<>>
    /\ pre = <<>>
    /\ nsub = 0
    /\ clean = TRUE
    /\ ready = FALSE
    /\ closed = FALSE

NextWrite ==
    \/ Write
    \/ WriteAll
    \/ WriteJsonLines
    \/ AsyncWrite
    \/ Flush
    \/ IntoSink
    \/ poll_ready
    \/ start_send
    \/ poll_flush
    \/ poll_close

SpecWrite == InitWrite /\ [][NextWrite]_vars

\* A poll of the sink in which the underlying writer takes a byte of the
\* pending buffer
DrainProgress ==
    /\ \/ poll_ready
       \/ poll_flush
       \/ poll_close
    /\ buffer.some
    /\ offset' > offset

\* The sink is polled again and again by its task, and the underlying writer
\* does not answer Pending, an error or zero bytes for ever: a poll that
\* writes a byte of the pending buffer is taken while one is possible.
SpecDrain == InitWrite /\ [][NextWrite]_vars /\ WF_vars(DrainProgress)

\* Framed writes with seeks and raw writes on the underlying output between
\* them, on an output that takes every write: the runs in which no write
\* fails
NextRawWrite ==
    \/ Write /\ clean'
    \/ WriteAll /\ clean'
    \/ WriteJsonLines /\ clean'
    \/ AsyncWrite /\ clean'
    \/ RawWrite
    \/ Seek

SpecRawWrite == InitWrite /\ [][NextRawWrite]_vars

\* What a file holds before the first call: nothing, a line that is no
\* record, or a record
PriorContents == {<<>>, <<"X", NL>>, Line(Num(120))}

\* A path that names no file, or a file with some content
InitFiles ==
    /\ NoReader
    /\ wkind \in {"nofile", "file"}
    /\ out \in (IF wkind = "nofile" THEN {<<>>} ELSE PriorContents)
    /\ pre = out
    /\ wpos = 0
    /\ rawops = <<>>
    /\ nflush = 0
    /\ nshut = 0
    /\ buffer = None
    /\ offset = 0
    /\ pc = "idle"
    /\ wres = Res("new", "Ok")
    /\ accepted = <<>>
    /\ sent = <<>>
    /\ nsub = 0
    /\ clean = TRUE
    /\ ready = FALSE
    /\ closed = FALSE

NextFiles ==
    \/ FsWriteJsonLines
    \/ AppendJsonLines

SpecFiles == InitFiles /\ [][NextFiles]_vars

\* A read wrapper over an arbitrary input of at most MaxLines lines
NoWriter ==
    /\ wkind = "none"
    /\ out = <<>>
    /\ wpos = 0
    /\ rawops = <<>>
    /\ nflush = 0
    /\ nshut = 0
    /\ buffer = None
    /\ offset = 0
    /\ pc = "idle"
    /\ wres = Res("none", "Ok")
    /\ accepted = <<>>
    /\ sent = <<>>
    /\ pre = <<>>
    /\ nsub = 0
    /\ clean = TRUE
    /\ ready = FALSE
    /\ closed = FALSE

InitRead ==
    /\ NoWriter
    /\ rkind \in {"reader", "areader"}
    /\ inp \in Inputs
    /\ pos = 0
    /\ held = <<>>
    /\ infl = "none"
    /\ rtype = "none"
    /\ rres = RRes("new", "New", "none", NoVal, "", FALSE)
    /\ npull = 0
    /\ nappend = 0
    /\ rclean = TRUE

NextRead ==
    \/ Read
    \/ IntoIter
    \/ IterNext
    \/ AsyncRead
    \/ DropRead
    \/ ReadAll
    \/ PollNext
    \/ Grow

SpecRead == InitRead /\ [][NextRead]_vars

\* Every operation that calls the underlying writer or reader: a fresh
\* writer, or a fresh reader
InitIo ==
    \/ InitWrite
    \/ InitRead

NextIo ==
    \/ Write
    \/ WriteAll
    \/ WriteJsonLines
    \/ AsyncWrite
    \/ Flush
    \/ IntoSink
    \/ poll_ready
    \/ start_send
    \/ poll_flush
    \/ poll_close
    \/ Read
    \/ IntoIter
    \/ IterNext
    \/ AsyncRead
    \/ DropRead
    \/ ReadAll
    \/ PollNext

SpecIo == InitIo /\ [][NextIo]_vars

\* A read wrapper over an input of malformed records
InitBad ==
    /\ NoWriter
    /\ rkind \in {"reader", "areader"}
    /\ inp \in BadInputs
    /\ pos = 0
    /\ held = <<>>
    /\ infl = "none"
    /\ rtype = "none"
    /\ rres = RRes("new", "New", "none", NoVal, "", FALSE)
    /\ npull = 0
    /\ nappend = 0
    /\ rclean = TRUE

NextBad ==
    \/ Read
    \/ IntoIter
    \/ IterNext
    \/ AsyncRead
    \/ ReadAll
    \/ PollNext

SpecBad == InitBad /\ [][NextBad]_vars

\* A read wrapper over an input with blank lines
InitBlank ==
    /\ NoWriter
    /\ rkind \in {"reader", "areader"}
    /\ inp \in BlankInputs
    /\ pos = 0
    /\ held = <<>>
    /\ infl = "none"
    /\ rtype = "none"
    /\ rres = RRes("new", "New", "none", NoVal, "", FALSE)
    /\ npull = 0
    /\ nappend = 0
    /\ rclean = TRUE

SpecBlank == InitBlank /\ [][NextBad]_vars

\* Iter::next / JsonLinesStream::poll_next on an underlying reader that has
\* failed and fails again: read_line(..)? returns the error anew, and the
\* pull is Some(Err) as before.
PullFailing ==
    /\ rkind \in {"iter", "stream"}
    /\ rres.kind = "Other"
    /\ npull < MaxPulls
    /\ npull' = npull + 1
    /\ UNCHANGED <<rkind, inp, pos, held, infl, rtype, rres, nappend, rclean, wvars>>

\* The pulls of IterNext and PollNext in which read_line fails before it took
\* a byte: one is possible whenever a pull is
ReadLineFails ==
    /\ rkind \in {"iter", "stream"}
    /\ Alive
    /\ npull < MaxPulls
    /\ npull' = npull + 1
    /\ held' = <<>>
    /\ rres' = IF rkind = "iter" THEN transpose(IoError("next", "Err", rtype))
                                ELSE IoError("poll_next", "Some(Err)", rtype)
    /\ rclean' = FALSE
    /\ UNCHANGED <<rkind, inp, pos, infl, rtype, nappend, wvars>>

\* A sequence is built from the reader and pulled to its end
NextPull ==
    \/ IntoIter
    \/ ReadAll
    \/ IterNext
    \/ PollNext
    \/ PullFailing

\* The consumer builds the sequence and keeps pulling it (for item in
\* reader.iter(), while let Some(item) = stream.next().await), and a stream
\* that was Pending is polled again when its reader has data or its end: some
\* step of NextPull is taken while one is possible. ReadLineFails is among
\* the steps of NextPull and is named first so that whether a step is
\* possible is decided without decoding a line.
SpecPull ==
    /\ InitBad
    /\ [][NextPull]_vars
    /\ WF_vars(ReadLineFails \/ NextPull)

\* Reads through the wrapper and reads on the underlying reader, in any order
NextInterleave ==
    \/ Read
    \/ AsyncRead
    \/ DropRead
    \/ IntoInner
    \/ RawReadLine

SpecInterleave == InitRead /\ [][NextInterleave]_vars

\* Write, then read what was written: the output of a writer whose writes all
\* succeeded and whose sink holds no unwritten bytes is opened as the input of
\* a read wrapper. The writer is given up (into_inner), its last result with
\* it.
Open ==
    /\ rkind = "none"
    /\ clean
    /\ pc = "idle"
    /\ ~buffer.some
    /\ rkind' \in {"reader", "areader"}
    /\ inp' = out
    /\ rres' = RRes("new", "New", "none", NoVal, "", FALSE)
    /\ wres' = Res("into_inner", "Ok")
    /\ UNCHANGED <<pos, held, infl, rtype, npull, nappend, rclean>>
    /\ UNCHANGED <<wkind, out, wpos, nflush, nshut, buffer, offset, pc, accepted, sent,
                   pre, nsub, clean, ready, closed, rawops>>

InitRoundTrip == InitWrite

\* The writer is used while nothing failed and until its output is opened; the
\* reader is pulled as far as one pull beyond the last record written
Writing == rkind = "none" /\ clean

Reading == npull <= Len(accepted) + Len(sent)

NextRoundTrip ==
    \/ Writing /\ Write
    \/ Writing /\ WriteAll
    \/ Writing /\ WriteJsonLines
    \/ Writing /\ AsyncWrite
    \/ Writing /\ IntoSink
    \/ Writing /\ poll_ready
    \/ Writing /\ start_send
    \/ Writing /\ poll_flush
    \/ Open
    \/ Reading /\ Read
    \/ Reading /\ IntoIter
    \/ Reading /\ IterNext
    \/ Reading /\ AsyncRead
    \/ Reading /\ ReadAll
    \/ Reading /\ PollNext

SpecRoundTrip == InitRoundTrip /\ [][NextRoundTrip]_vars

\* ================================================================== claims
\* The values written so far, in call order: by the writer, then by the sink
\* made of it
Written == accepted \o sent

\* The write wrapper has handed every byte of its records to the output: a
\* writer after its write returned, a sink after poll_flush or poll_close
\* returned Ready(Ok(()))
Delivered ==
    \/ wkind \in {"sync", "ext", "async"}
    \/ wkind = "sink" /\ pc = "idle" /\ wres.op \in {"poll_flush", "poll_close"}
                      /\ wres.r = "Ok"

\* C1 (framing): after N successful record writes the output is exactly the N
\* compact encodings in call order, each followed by one "\n": N newlines, no
\* "\r", no blank line, the last byte a newline.
C1_Framing ==
    (wkind # "none" /\ clean /\ Delivered) =>
        /\ out = Lines(Written)
        /\ CountByte(out, NL) = Len(Written)
        /\ CountByte(out, CR) = 0
        /\ \A i \in 1..Len(out) : out[i] = NL => (i > 1 /\ out[i - 1] # NL)
        /\ (out # <<>> => out[Len(out)] = NL)

C1_Witness ==
    /\ wkind = "sink"
    /\ clean
    /\ Delivered
    /\ Len(accepted) = 1
    /\ sent = <<Str(<<"a", NL>>)>>

\* C5 (as claimed): when encoding a value fails, the output is byte for byte
\* what it was before the call.
C5_EncodeFailureWritesNothing == [][wres'.r = "EncErr" => out' = out]_vars

\* The sink's unwritten bytes are the rest of its last item's line, and the
\* output is everything before them
SinkExact ==
    IF buffer.some
    THEN /\ sent # <<>>
         /\ buffer.bytes = Line(sent[Len(sent)])
         /\ offset <= Len(buffer.bytes)
         /\ out = pre \o Lines(Take(sent, Len(sent) - 1)) \o Take(buffer.bytes, offset)
    ELSE out = pre \o Lines(sent)

\* C8 (backpressure): poll_ready returns Ready(Ok) only with no pending buffer,
\* every byte of the submitted records accepted by the underlying writer.
C8_ReadyMeansDrained ==
    (wkind = "sink" /\ pc = "idle" /\ wres = Res("poll_ready", "Ok")) =>
        (~buffer.some /\ out = pre \o Lines(sent))

C8_Witness ==
    /\ wkind = "sink"
    /\ pc = "idle"
    /\ wres = Res("poll_ready", "Ok")
    /\ Len(sent) = MaxItems
    /\ out = pre \o Lines(sent)

\* C9: under the sink protocol the bytes accepted by the underlying writer are
\* at every moment a prefix of the submitted items' lines in order, and the
\* pending buffer is the one encoding made by start_send: no byte is written
\* twice, skipped or reordered.
C9_SinkPrefix ==
    wkind = "sink" =>
        /\ IsPrefix(out, pre \o Lines(sent))
        /\ Len(pre) <= Len(out)
        /\ SinkExact

C9_Witness ==
    /\ wkind = "sink"
    /\ pc = "poll_flush"
    /\ Len(sent) = 2
    /\ buffer.some
    /\ offset > 1
    /\ offset < Len(buffer.bytes)

\* C10: when a sink poll returns Pending with bytes unwritten, the buffer is
\* the item's encoding as start_send made it and offset counts exactly the
\* bytes of it the underlying writer accepted.
C10_PendingKeepsProgress ==
    (wkind = "sink" /\ pc = "idle" /\ wres.r = "Pending" /\ buffer.some) =>
        /\ sent # <<>>
        /\ buffer.bytes = Line(sent[Len(sent)])
        /\ offset < Len(buffer.bytes)
        /\ Len(out) = Len(pre) + Len(Lines(Take(sent, Len(sent) - 1))) + offset
        /\ Take(buffer.bytes, offset) = Drop(out, Len(out) - offset)

C10_Witness ==
    /\ wkind = "sink"
    /\ pc = "idle"
    /\ wres = Res("poll_close", "Pending")
    /\ buffer.some
    /\ offset > 0

\* ------------------------------------------------------------ read claims
\* The lines of an input as the format defines them: each ends with its "\n",
\* a last one without "\n" ends with the data
RECURSIVE Split(_, _)
Split(s, cur) ==
    IF s = <<>> THEN (IF cur = <<>> THEN <<>> ELSE <<cur>>)
    ELSE IF Head(s) = NL THEN <<cur \o <<NL>>>> \o Split(Tail(s), <<>>)
    ELSE Split(Tail(s), Append(cur, Head(s)))

RawLines(s) == Split(s, <<>>)

\* The text of a line: the line without its "\n" or "\r\n"
Body(line) ==
    LET a == IF line # <<>> /\ line[Len(line)] = NL
             THEN SubSeq(line, 1, Len(line) - 1) ELSE line
    IN IF a # <<>> /\ a[Len(a)] = CR THEN SubSeq(a, 1, Len(a) - 1) ELSE a

\* The last call was a read or a pull, and it returned
Completed ==
    /\ rres.op \in {"read", "async_read", "next", "poll_next"}
    /\ rres.r \notin {"Pending", "Dropped"}

\* No data is readable: everything was handed out and no partial line is held
AtEnd == pos = Len(inp) /\ held = <<>>

C3_Resilience ==
    (rkind \in {"iter", "stream"} /\ rclean /\ nappend = 0 /\ Completed) =>
        LET lines == RawLines(inp) IN
        IF npull > Len(lines) THEN rres.r = "None"
        ELSE LET d == from_str(rtype, Body(lines[npull])) IN
             IF d.ok THEN rres.r = "Some(Ok)" /\ rres.v = d.v
             ELSE rres.r = "Some(Err)" /\ rres.json

C3_Witness ==
    /\ rkind = "stream"
    /\ rclean
    /\ nappend = 0
    /\ inp = <<"7", NL, NL, "7", NL>>
    /\ rtype = "num"
    /\ npull = 4
    /\ rres.r = "None"

\* C4: every completed read of JsonLinesReader / AsyncJsonLinesReader, a
\* malformed-record error included, has consumed exactly the lines up to its
\* own and returns the record of its own line, whatever the reads before it
\* returned.
C4_ReadNotPoisoned ==
    (rkind \in {"reader", "areader"} /\ rclean /\ nappend = 0 /\ Completed) =>
        LET lines == RawLines(inp)
            k == IF npull > Len(lines) THEN Len(lines) ELSE npull
        IN
        /\ pos = Len(Concat(SubSeq(lines, 1, k)))
        /\ IF npull > Len(lines) THEN rres.r = "Ok(None)"
           ELSE LET d == from_str(rres.T, lines[npull]) IN
                IF d.ok THEN rres.r = "Ok(Some)" /\ rres.v = d.v
                ELSE rres.r = "Err" /\ rres.json /\ rres.kind = d.kind

C4_Witness ==
    /\ rkind = "areader"
    /\ rclean
    /\ nappend = 0
    /\ inp = <<"[", "]", CR, NL, NL, "7", NL>>
    /\ npull = 3
    /\ rres.r = "Ok(Some)"
    /\ rres.T = "f64"
    /\ rres.v = Float(7, <<>>)

\* C6 (end of input): a read or pull made when no data is readable returns
\* "no value" and no error, each time it is repeated, and "no value" is
\* returned only by a call whose line read took zero bytes at the end of the
\* data.
C6_EndOfInput ==
    [][(rkind # "none" /\ npull' = npull + 1) =>
          /\ (AtEnd /\ rres'.kind # "Other") =>
                 (rres'.r \in {"Ok(None)", "None"} /\ pos' = pos)
          /\ rres'.r \in {"Ok(None)", "None"} => (AtEnd /\ pos' = pos)]_vars

C6_Witness ==
    /\ rkind = "reader"
    /\ inp = <<>>
    /\ npull = 3
    /\ rres.r = "Ok(None)"

\* C7 (as claimed): once a pull of Iter / JsonLinesStream returned nothing,
\* every later pull returns nothing, also when more data became readable.
C7_EndIsPermanent ==
    [][(rkind \in {"iter", "stream"} /\ rres.r = "None"
            /\ npull' = npull + 1 /\ rres'.kind # "Other")
          => rres'.r = "None"]_vars

\* C7 (amended): a pull of Iter / JsonLinesStream returns nothing exactly when
\* no data is readable at that pull, whether or not an earlier pull returned
\* nothing: the end is reported again until more data is readable, and data
\* that became readable is yielded.
C7_EndUntilMoreData ==
    [][(rkind \in {"iter", "stream"} /\ npull' = npull + 1
            /\ rres'.kind # "Other")
          => (rres'.r = "None" <=> AtEnd)]_vars

C7_Witness ==
    /\ rkind = "stream"
    /\ rclean
    /\ nappend = 1
    /\ inp = <<"7", NL>>
    /\ npull = 2
    /\ rres.r = "Some(Ok)"

\* ------------------------------------------------ flush and close claims
\* C11 (sink flush ordering): a poll_flush step calls the underlying flush
\* only with the buffer cleared and every submitted byte in the output, and
\* poll_flush returns Ready(Ok) only from a step that called the underlying
\* flush.
C11_FlushAfterDrain ==
    wkind = "sink" =>
        /\ nflush = 1 =>
              (wres.op = "poll_flush" /\ ~buffer.some /\ out = pre \o Lines(sent))
        /\ wres = Res("poll_flush", "Ok") => (nflush = 1 /\ ~buffer.some)
        /\ (wres.op = "poll_flush" /\ buffer.some) => nflush = 0

C11_Witness ==
    /\ wkind = "sink"
    /\ wres = Res("poll_flush", "Ok")
    /\ nflush = 1
    /\ Len(sent) = MaxItems
    /\ out = pre \o Lines(sent)

\* C12 (sink close ordering): a poll_close step calls the underlying shutdown
\* only with the buffer cleared; once poll_close returned Ready(Ok) every item
\* start_send accepted is in the output, in order, and a sink that was sent no
\* item has written nothing.
C12_CloseAfterDrain ==
    wkind = "sink" =>
        /\ nshut = 1 =>
              (wres.op = "poll_close" /\ ~buffer.some /\ out = pre \o Lines(sent))
        /\ closed => (nshut = 1 /\ out = pre \o Lines(sent))
        /\ (closed /\ sent = <<>>) => out = pre
        /\ (wres.op = "poll_close" /\ buffer.some) => nshut = 0

C12_Witness ==
    /\ wkind = "sink"
    /\ closed
    /\ pre = <<>>
    /\ Len(sent) = MaxItems
    /\ Len(out) > 0

\* C13 (no write flushes): a step of write, write_all, write_json_lines or the
\* asynchronous write makes no call of the underlying flush; a step of flush()
\* makes exactly one and leaves the output as it was.
C13_WritesDoNotFlush ==
    [][/\ wres'.op \in {"write", "write_all", "write_json_lines", "async_write"}
            => (nflush' = 0 /\ nshut' = 0)
       /\ wres'.op = "flush" => (nflush' = 1 /\ nshut' = 0 /\ out' = out)]_vars

C13_Witness ==
    /\ wkind = "sync"
    /\ wres = Res("flush", "Ok")
    /\ nflush = 1
    /\ Len(accepted) = MaxItems
    /\ out = Lines(accepted)

\* The bytes a failed write of v may leave in the output: a part of its line
\* short of the whole, and for a value that cannot be encoded what the
\* serializer emitted before it met the offending part
Partial(v, r) ==
    IF r = "EncErr" THEN {Emitted(v)}
    ELSE {Take(Line(v), k) : k \in 0..(Len(IF Encodable(v) THEN Line(v) ELSE Emitted(v)) - 1)}

\* C14 (write_all is in order and fail-fast): a write_all step handed items
\* leaves the lines of the first n items in the output, in order; when it
\* returns Ok n is all of them; when it returns an error, item n+1 is the one
\* that failed, the error is its error, at most a part of its line follows
\* and nothing of a later item.
C14_WriteAllFailFast ==
    [][wres'.op = "write_all" =>
          \E n \in 0..Len(wres'.items) :
              /\ accepted' = accepted \o Take(wres'.items, n)
              /\ IF wres'.r = "Ok"
                 THEN /\ n = Len(wres'.items)
                      /\ out' = out \o Lines(wres'.items)
                 ELSE /\ n < Len(wres'.items)
                      /\ wres'.r = "EncErr" => ~Encodable(wres'.items[n + 1])
                      /\ \E p \in Partial(wres'.items[n + 1], wres'.r) :
                             out' = out \o Lines(Take(wres'.items, n)) \o p]_vars

C14_Witness ==
    /\ wkind = "sync"
    /\ wres.op = "write_all"
    /\ wres.r = "EncErr"
    /\ wres.items = <<BadMap, Num(120)>>
    /\ accepted = <<>>
    /\ out = <<"{">>

\* C15 (framed and raw reads interleave): when the reads through the wrapper
\* and the raw line reads made so far number k, none of them abandoned or
\* failed by the underlying reader, exactly the first k lines are consumed,
\* and a raw line read made as the k-th returns line k of the input with its
\* terminator, byte for byte, or nothing after the last line.
C15_RawReadGetsNextLine ==
    (rkind \in {"reader", "areader", "inner"} /\ rclean /\ infl = "none") =>
        LET lines == RawLines(inp)
            k == IF npull > Len(lines) THEN Len(lines) ELSE npull
        IN
        /\ pos = Len(Concat(SubSeq(lines, 1, k)))
        /\ rres.op = "read_line" =>
               rres.v = Str(IF npull > Len(lines) THEN <<>> ELSE lines[npull])

C15_Witness ==
    /\ rkind = "inner"
    /\ rclean
    /\ inp = <<"7", NL, NL, "7", NL>>
    /\ npull = 2
    /\ rres.op = "read_line"
    /\ rres.v = Str(<<NL>>)

\* The output and its position after the framed writes of the values ws and
\* the raw operations rs, each taking effect in program order on the output
\* as the operations before it left it: i values are written so far, s is the
\* content and p the position.
RECURSIVE Replay(_, _, _, _, _)
Replay(ws, rs, i, s, p) ==
    IF rs # <<>> /\ Head(rs).at = i
    THEN IF Head(rs).op = "seek"
         THEN Replay(ws, Tail(rs), i, s, Head(rs).p)
         ELSE Replay(ws, Tail(rs), i, Put(s, p, Head(rs).x), p + Len(Head(rs).x))
    ELSE IF i < Len(ws)
    THEN Replay(ws, rs, i + 1, Put(s, p, Line(ws[i + 1])), p + Len(Line(ws[i + 1])))
    ELSE [out |-> s, wpos |-> p]

\* C16 (the writers hold no buffer or position): while no write has failed,
\* the output and its position are what the framed writes, the raw writes
\* and the seeks give when each takes effect in program order at the
\* position the output has then: a's line, a seek to 0 and a longer b's line
\* give exactly b's line; a's line and a raw write X give a's line and X.
C16_WritersHoldNoState ==
    (Reachable /\ clean) =>
        /\ [out |-> out, wpos |-> wpos] = Replay(accepted, rawops, 0, <<>>, 0)
        /\ \A a, b \in Values :
              (/\ accepted = <<a, b>>
               /\ rawops = <<[op |-> "seek", at |-> 1, x |-> <<>>, p |-> 0]>>
               /\ Len(Line(b)) >= Len(Line(a))) => out = Line(b)
        /\ \A x \in RawData :
              (rawops = <<[op |-> "write", at |-> Len(accepted), x |-> x, p |-> 0]>>)
                  => out = Lines(accepted) \o x

C16_Witness ==
    /\ wkind = "sync"
    /\ clean
    /\ accepted = <<Num(120), Vec(<<1, 12>>)>>
    /\ rawops = <<[op |-> "seek", at |-> 1, x |-> <<>>, p |-> 0]>>
    /\ out = Line(Vec(<<1, 12>>))

\* C17 (the Reader does not latch the end of input): once a read has returned
\* no value and the input has grown, a read that completes returns the record
\* of the next unread line and consumes that line alone, and returns no value
\* exactly when no unread data is left, so the read after the appended line
\* returns no value again.
C17_EndNotLatched ==
    [][(/\ rkind \in {"reader", "areader"}
        /\ nappend >= 1
        /\ npull' = npull + 1
        /\ rclean') =>
           LET line == SubSeq(inp, pos - Len(held) + 1, LineEnd(inp, pos)) IN
           IF line = <<>>
           THEN rres'.r = "Ok(None)" /\ pos' = pos
           ELSE /\ pos' = LineEnd(inp, pos)
                /\ LET d == from_str(rres'.T, line) IN
                   IF d.ok THEN rres'.r = "Ok(Some)" /\ rres'.v = d.v
                   ELSE rres'.r = "Err" /\ rres'.json]_vars

C17_Witness ==
    /\ rkind = "reader"
    /\ rclean
    /\ nappend = 1
    /\ inp = <<"7", NL>>
    /\ npull = 3
    /\ rres.op = "read"
    /\ rres.r = "Ok(None)"
    /\ pos = Len(inp)

\* C18 (append keeps order and prior content): a successful append_json_lines
\* leaves a file, created when it was missing, that holds what it held before
\* followed by the lines of the items in order; and while every call
\* succeeded the file holds its first content followed by the lines of all
\* the items appended, in the order of the calls.
C18_AppendKeepsOrder ==
    [][/\ (wres'.op = "append_json_lines" /\ wres'.r = "Ok") =>
             (wkind' = "file" /\ out' = out \o Lines(wres'.items))
       /\ (IsPath /\ clean') => out' = pre' \o Lines(accepted')]_vars

C18_Witness ==
    /\ wkind = "file"
    /\ clean
    /\ wres.op = "append_json_lines"
    /\ wres.items = <<Vec(<<1, 12>>)>>
    /\ pre = <<"X", NL>>
    /\ accepted = <<Num(120), Vec(<<1, 12>>)>>
    /\ out = <<"X", NL>> \o Line(Num(120)) \o Line(Vec(<<1, 12>>))

\* C19 (appending nothing changes nothing): append_json_lines with no items
\* leaves the content of an existing file as it was, and when it succeeds on a
\* missing path the file exists and is empty.
C19_AppendNothing ==
    [][(wres'.op = "append_json_lines" /\ wres'.items = <<>>) =>
          /\ out' = out
          /\ wres'.r = "Ok" => (wkind' = "file" /\ (wkind = "nofile" => out' = <<>>))
          /\ wres'.r # "Ok" => wkind' = wkind]_vars

C19_Witness ==
    /\ wkind = "file"
    /\ clean
    /\ wres = [Res("append_json_lines", "Ok") EXCEPT !.items = <<>>]
    /\ pre = <<>>
    /\ accepted = <<Num(120)>>
    /\ out = Line(Num(120))

\* C20 (write_json_lines on a path creates or truncates): after a successful
\* call the file exists and holds exactly the lines of the items in order,
\* whatever it held before, and the writer was flushed; with no items the file
\* is empty.
C20_CreateOrTruncate ==
    [][(wres'.op = "fs_write_json_lines" /\ wres'.r = "Ok") =>
          /\ wkind' = "file"
          /\ out' = Lines(wres'.items)
          /\ nflush' = 1
          /\ wres'.items = <<>> => out' = <<>>]_vars

C20_Witness ==
    /\ wkind = "file"
    /\ wres = [Res("fs_write_json_lines", "Ok") EXCEPT !.items = <<Str(<<"a", NL>>)>>]
    /\ accepted = <<Str(<<"a", NL>>)>>
    /\ out = Line(Str(<<"a", NL>>))
    /\ nsub = 2

\* What can follow a text to make it a JSON value of one of the record types
Completions == {<<"7">>, <<QUOTE>>, <<"]">>, <<"0">>}

\* The text is a JSON value of one of the record types
Complete(text) == \E T \in Types : from_str(T, text).ok

\* The text is no JSON value yet and is the beginning of one
Incomplete(text) ==
    /\ ~Complete(text)
    /\ \E e \in Completions : Complete(text \o e)

\* The last call returned the record of line npull of an input that did not
\* grow, no line read having failed before
OnLine ==
    /\ rkind # "none"
    /\ rclean
    /\ nappend = 0
    /\ Completed
    /\ npull <= Len(RawLines(inp))

Failed == rres.r \in {"Err", "Some(Err)"}

Handed ==
    IF rres.op = "poll_next" THEN Body(RawLines(inp)[npull])
    ELSE RawLines(inp)[npull]

SyncWrites == {"write", "write_all", "write_json_lines"}

Polls == {"poll_ready", "poll_flush", "poll_close"}

\* What holds of every step in which an underlying call failed: the operation
\* returns the error and makes no further underlying call
ErrorsEndTheCall ==
    /\ (wres'.op \in SyncWrites \cup {"async_write"} /\ wres'.r = "IoErr") =>
           (nflush' = 0 /\ nshut' = 0 /\ IsPrefix(out, out') /\ ~clean')
    /\ wres'.op = "flush" => (nflush' = 1 /\ nshut' = 0 /\ out' = out)
    /\ (wres'.op \in Polls /\ wres'.r = "IoErr") =>
           /\ pc' = "idle"
           /\ out' = out
           /\ buffer' = buffer /\ offset' = offset
           /\ IF buffer.some THEN nflush' = 0 /\ nshut' = 0
              ELSE nflush' + nshut' = 1
    /\ (rclean /\ ~rclean' /\ rres'.r # "Dropped") =>
           /\ rres'.r \in {"Err", "Some(Err)"}
           /\ rres'.kind = "Other"
           /\ ~rres'.json
           /\ npull' = npull + 1
           /\ held' = <<>>

\* C23 (as claimed): an underlying call that reports an error ends the
\* operation, which returns the error and makes no further underlying call;
\* no error of an underlying call is passed over and the call made again.
C23_NothingRetried ==
    [][ErrorsEndTheCall /\ ~wres'.intr]_vars

\* C23 (amended): an underlying call that reports an error ends the
\* operation, which returns the error and makes no further underlying call,
\* except that an underlying write which reports ErrorKind::Interrupted to a
\* synchronous write operation is made again and its error is not returned.
C23_OnlyInterruptedRetried ==
    [][ErrorsEndTheCall /\ (wres'.intr => wres'.op \in SyncWrites)]_vars

C23_Witness ==
    /\ wkind = "sink"
    /\ wres = Res("poll_flush", "IoErr")
    /\ buffer.some
    /\ offset > 0
    /\ nflush = 0
    /\ pc = "idle"

\* The step had on the output, the result and the history the effect o
EffectIs(o) ==
    /\ out' = Put(out, wpos, o.bytes)
    /\ wpos' = wpos + Len(o.bytes)
    /\ wres'.r = o.r
    /\ accepted' = accepted \o Take(wres'.items, o.n)
    /\ nflush' = 0
    /\ nshut' = 0

\* C24 (the extension method equals the wrapper form): every effect of
\* WriteExt::write_json_lines(items) on a writer, the bytes written, the
\* result, the item at which it stopped and the absence of flush calls, is an
\* effect of JsonLinesWriter::write repeated over the items on the same
\* writer, and every effect of the repeated write is one of the extension
\* method.
C24_ExtEqualsRepeatedWrite ==
    [][/\ wres'.op = "write_json_lines" =>
              \E o \in ForEachWrite(wres'.items) : EffectIs(o)
       /\ wres'.op = "write_all" =>
              \E o \in write_json_lines(wres'.items) : EffectIs(o)]_vars

C24_Witness ==
    /\ wkind = "ext"
    /\ wres.op = "write_json_lines"
    /\ wres.r = "EncErr"
    /\ wres.items = <<Num(120), BadMap>>
    /\ accepted = <<Num(120)>>
    /\ out = Line(Num(120)) \o <<"{">>
    /\ nflush = 0

\* The sequence returned its end signal on the pull after one pull per line
Exhausted ==
    /\ rkind \in {"iter", "stream"}
    /\ rres.r = "None"
    /\ npull = Len(RawLines(inp)) + 1

C26_StopPollingLosesNothing ==
    (rkind = "stream" /\ rclean /\ nappend = 0) =>
        LET lines == RawLines(inp)
            k == IF npull > Len(lines) THEN Len(lines) ELSE npull
        IN
        /\ Take(inp, pos) = Concat(SubSeq(lines, 1, k)) \o held
        /\ (rres.op = "poll_next" /\ rres.r # "Pending") =>
               IF npull > Len(lines) THEN rres.r = "None"
               ELSE poll_next(rtype, TRUE, Body(lines[npull])) = rres

C26_Witness ==
    /\ rkind = "stream"
    /\ rclean
    /\ nappend = 0
    /\ inp = <<"7", NL, "[", "]", CR, NL, "7">>
    /\ rres.op = "poll_next"
    /\ rres.r = "Pending"
    /\ npull = 1
    /\ held = <<"[", "]">>

\* C27 (the offset stays inside the buffer): while a sink holds a pending
\* buffer, 0 <= offset <= the buffer's length, with an underlying writer that
\* reports no more bytes than it was offered, so that buffer[offset..] is
\* within bounds: the slice and the bytes before it make up the buffer.
C27_OffsetInBounds ==
    (wkind = "sink" /\ buffer.some) =>
        /\ 0 <= offset
        /\ offset <= Len(buffer.bytes)
        /\ Take(buffer.bytes, offset) \o Unwritten(buffer, offset) = buffer.bytes

C27_Witness ==
    /\ wkind = "sink"
    /\ buffer = Some(Line(Num(120)))
    /\ sent = <<Vec(<<1, 12>>), Num(120)>>
    /\ offset = 3
    /\ wres.op = "poll_flush"
    /\ wres.r = "Pending"

\* The pending buffer is the line of the record sent last: one record, not
\* empty, one newline, which is its last byte, and a byte of it is yet to be
\* written
OneRecord ==
    buffer.some =>
        /\ sent # <<>>
        /\ buffer.bytes = Line(sent[Len(sent)])
        /\ Len(buffer.bytes) >= 2
        /\ {i \in 1..Len(buffer.bytes) : buffer.bytes[i] = NL} = {Len(buffer.bytes)}
        /\ offset < Len(buffer.bytes)

\* C28 (life of the pending buffer): a sink that was sent nothing has no
\* pending buffer; a buffer comes to be present by a successful start_send
\* and by nothing else, and ceases to be present by the drain step that
\* writes its last byte and by nothing else; while present it is one record,
\* never empty, ending in its only newline.
C28_BufferLife ==
    [][/\ (wkind = "sink" /\ nsub = 0) => ~buffer.some
       /\ OneRecord'
       /\ (wres'.op = "start_send" /\ wres'.r = "Ok") => buffer'.some
       /\ (~buffer.some /\ buffer'.some) =>
              wres'.op = "start_send" /\ wres'.r = "Ok"
       /\ (buffer.some /\ ~buffer'.some) =>
              /\ wres'.op \in Polls
              /\ offset' = Len(buffer.bytes)
              /\ out' = Put(out, wpos, Unwritten(buffer, offset))
       /\ (buffer.some /\ wres'.op \in Polls /\ out' = Put(out, wpos, Unwritten(buffer, offset))) =>
              ~buffer'.some]_vars

C28_Witness ==
    /\ wkind = "sink"
    /\ ~buffer.some
    /\ sent = <<Str(<<"a", NL>>)>>
    /\ out = Line(Str(<<"a", NL>>))
    /\ offset = Len(out)
    /\ wres.op = "poll_close"
    /\ wres.r = "Running"

\* C29 (the assertion of start_send): under the Sink protocol, a start_send
\* only after a poll_ready that returned Ready(Ok(())) and no start_send since,
\* start_send finds no pending buffer, whatever polls came between and
\* however the writes were split or Pending; when the record encodes it
\* stores the record's line and sets the offset to zero.
C29_AssertionHolds ==
    [][wres'.op = "start_send" =>
          /\ ~buffer.some
          /\ wres'.r # "Panic"
          /\ pc' # "panic"
          /\ wres'.r = "Ok" =>
                 /\ sent' # <<>>
                 /\ Take(sent', Len(sent)) = sent
                 /\ buffer' = Some(Line(sent'[Len(sent')]))
                 /\ offset' = 0]_vars

C29_Witness ==
    /\ wkind = "sink"
    /\ wres = Res("start_send", "Ok")
    /\ sent = <<Vec(<<1, 12>>), Num(120)>>
    /\ out = Line(Vec(<<1, 12>>))
    /\ buffer = Some(Line(Num(120)))
    /\ offset = 0
    /\ nsub = 2

\* The input ends without a newline: its last line is not terminated
Unterminated == inp # <<>> /\ inp[Len(inp)] # NL

\* C30 (the last line needs no newline): when the input ends without a
\* trailing newline, the read or pull that comes to the text after the last
\* newline decodes it as one more record, a value when it parses and a
\* malformed-record error otherwise, and the end of input is reported by the
\* call after it and by none before.
C30_LastLineDelivered ==
    (rkind # "none" /\ rclean /\ nappend = 0 /\ Completed /\ Unterminated) =>
        LET n == Len(RawLines(inp)) IN
        /\ npull <= n => rres.r \notin {"Ok(None)", "None"}
        /\ npull = n =>
               LET d == from_str(rres.T, RawLines(inp)[n]) IN
               IF d.ok THEN rres.r \in {"Ok(Some)", "Some(Ok)"} /\ rres.v = d.v
               ELSE Failed /\ rres.json /\ rres.kind = d.kind
        /\ npull > n => rres.r \in {"Ok(None)", "None"}

C30_Witness ==
    /\ OnLine
    /\ Unterminated
    /\ rkind = "iter"
    /\ inp = <<"7", "x", NL, "[", "1">>
    /\ npull = 2
    /\ rtype = "seq"
    /\ rres.r = "Some(Err)"
    /\ rres.kind = "UnexpectedEof"

\* C31 (as claimed): the read paths agree. On every input, the result of the
\* k-th read() or pull of Iter, which hand the line with its terminator to
\* the decoder, is the result JsonLinesStream yields for the k-th line, which
\* hands over the line without its terminator: the same value, or an error of
\* the same kind, and the same end point.
C31_ReadPathsAgree ==
    (rkind # "none" /\ rclean /\ nappend = 0 /\ Completed) =>
        LET lines == RawLines(inp) IN
        IF npull > Len(lines) THEN rres.r \in {"Ok(None)", "None"}
        ELSE LET s == poll_next(rres.T, TRUE, StripLine(lines[npull])) IN
             /\ (s.r = "Some(Ok)") = (rres.r \in {"Ok(Some)", "Some(Ok)"})
             /\ rres.v = s.v
             /\ rres.kind = s.kind

\* C31 (amended): on every input the read paths agree on the values, on which
\* lines are errors and on the end point. The error kinds agree except on a
\* newline-terminated line whose text breaks off (inside a string, after a
\* decimal point): read() and Iter hand the newline to the decoder, which
\* reports InvalidData, where the stream reports UnexpectedEof.
C31_ReadPathsAgreeButKind ==
    (rkind # "none" /\ rclean /\ nappend = 0 /\ Completed) =>
        LET lines == RawLines(inp) IN
        IF npull > Len(lines) THEN rres.r \in {"Ok(None)", "None"}
        ELSE LET s == poll_next(rres.T, TRUE, StripLine(lines[npull])) IN
             /\ (s.r = "Some(Ok)") = (rres.r \in {"Ok(Some)", "Some(Ok)"})
             /\ (s.r = "Some(Err)") = Failed
             /\ rres.v = s.v
             /\ \/ rres.kind = s.kind
                \/ /\ rkind # "stream"
                   /\ rres.kind = "InvalidData"
                   /\ s.kind = "UnexpectedEof"
                   /\ Incomplete(StripLine(lines[npull]))
                   /\ lines[npull] # StripLine(lines[npull])

C31_Witness ==
    /\ rkind = "iter"
    /\ rclean
    /\ Completed
    /\ inp = <<"7", NL, "1", ".", NL>>
    /\ npull = 2
    /\ rtype = "f64"
    /\ rres.kind = "InvalidData"
    /\ poll_next("f64", TRUE, <<"1", ".">>).kind = "UnexpectedEof"

\* C32 (the target type belongs to the call): every read() that completes,
\* whatever the target types and results of the reads before it, takes
\* exactly the next line from the underlying reader and returns what
\* decoding that line as its own target type gives: the value, or, when the
\* line does not have the shape of the type, an error, with the line
\* consumed all the same.
C32_TypePerCall ==
    [][(rkind \in {"reader", "areader"} /\ npull' = npull + 1 /\ rclean'
            /\ rres'.op \in {"read", "async_read"}) =>
          LET rest == read_line(inp, pos) IN
          /\ pos' = pos + Len(rest)
          /\ rres'.T \in Types
          /\ rres' = read(rres'.op, rres'.T, held \o rest)
          /\ (held \o rest # <<>> /\ ~from_str(rres'.T, held \o rest).ok) =>
                 rres'.r = "Err" /\ rres'.json]_vars

C32_Witness ==
    /\ rkind = "reader"
    /\ rclean
    /\ inp = <<"7", NL, "7", NL>>
    /\ npull = 2
    /\ pos = 4
    /\ rres.op = "read"
    /\ rres.T = "str"
    /\ rres.r = "Err"
    /\ rres.kind = "InvalidData"

\* C33 (a blank line is a record): the read or pull that comes to a line of
\* nothing but its newline, or of nothing but whitespace, returns a
\* malformed-record error for it, not the end of input; the line is not
\* passed over, and the call after it returns the record of the line that
\* follows.
C33_BlankLineIsARecord ==
    OnLine =>
        LET lines == RawLines(inp) IN
        /\ Blank(lines[npull]) =>
               /\ Failed
               /\ rres.json
               /\ rres.kind = "UnexpectedEof"
        /\ pos = Len(Concat(SubSeq(lines, 1, npull)))
        /\ (npull > 1 /\ Blank(lines[npull - 1])) =>
               LET d == from_str(rres.T, Body(lines[npull])) IN
               IF d.ok THEN rres.r \in {"Ok(Some)", "Some(Ok)"} /\ rres.v = d.v
               ELSE Failed /\ rres.json

C33_Witness ==
    /\ OnLine
    /\ rkind = "stream"
    /\ inp = <<SP, NL, "7", NL>>
    /\ npull = 2
    /\ rtype = "num"
    /\ rres.r = "Some(Ok)"
    /\ rres.v = Num(7)
    /\ pos = 4

\* The last call was a start_send that failed to encode its item
EncodeFailed == wres.op = "start_send" /\ wres.r = "EncErr"

\* C34 (a failed encode leaves the sink as it was): a start_send whose item
\* does not encode returns the error with no buffer stored, the offset and
\* the output unchanged and the item not among those sent; the sink is ready
\* still, the poll_ready after it is Ready(Ok(())) without a write; no byte
\* of the item is written later, the output staying a prefix of the lines of
\* the items sent; and the next item is stored whole with the offset at zero.
C34_FailedEncodeLeavesSink ==
    [][/\ EncodeFailed' =>
              /\ ~buffer.some /\ ~buffer'.some
              /\ offset' = offset
              /\ out' = out
              /\ sent' = sent
       /\ (EncodeFailed /\ wres'.op = "poll_ready") =>
              /\ wres'.r = "Ok"
              /\ ready'
              /\ out' = out
       /\ wkind' = "sink" => IsPrefix(out', pre' \o Lines(sent'))
       /\ (wres'.op = "start_send" /\ wres'.r = "Ok") =>
              /\ buffer' = Some(Line(sent'[Len(sent')]))
              /\ offset' = 0]_vars

C34_Witness ==
    /\ wkind = "sink"
    /\ EncodeFailed
    /\ nsub = 2
    /\ sent = <<Num(120)>>
    /\ out = Line(Num(120))
    /\ ~buffer.some
    /\ offset = 4

\* The last call was a poll whose underlying write failed
WriteFailed == wres.op \in Polls /\ wres.r = "IoErr" /\ buffer.some

\* C35 (a write error drops no record): when the underlying write fails
\* inside poll_ready, poll_flush or poll_close, the poll returns the error
\* with the pending buffer and the offset as they were, the offset counting
\* the bytes of the buffer that were accepted, and the sink not ready; the
\* poll after it writes bytes of the rest of the buffer, buffer[offset..],
\* from its first byte on, and nothing else.
C35_WriteErrorKeepsRecord ==
    [][/\ (buffer.some /\ wres'.op \in Polls /\ wres'.r = "IoErr") =>
              /\ WriteFailed'
              /\ buffer' = buffer
              /\ offset' = offset
              /\ out' = out
              /\ ~ready'
              /\ Take(buffer'.bytes, offset') = Drop(out', Len(out') - offset')
       /\ (WriteFailed /\ wres'.op \in Polls) =>
              \E n \in 0..Len(Unwritten(buffer, offset)) :
                  /\ out' = Put(out, wpos, Take(Unwritten(buffer, offset), n))
                  /\ buffer'.some => buffer' = buffer /\ offset' = offset + n
                  /\ ~buffer'.some => n = Len(Unwritten(buffer, offset))]_vars

C35_Witness ==
    /\ wkind = "sink"
    /\ WriteFailed
    /\ wres.op = "poll_ready"
    /\ buffer = Some(Line(Vec(<<1, 12>>)))
    /\ offset = 3
    /\ out = Take(Line(Vec(<<1, 12>>)), 3)
    /\ ~ready

\* C36 (as claimed): every poll of the sink's drain returns after finitely
\* many underlying write calls, whatever the underlying writer answers, zero
\* bytes accepted of a non-empty slice included: the pending buffer is finite,
\* so this is that every pass of the loop in poll_flush_buffer after which the
\* poll goes on, not returning, has advanced the offset.
C36_EveryPassAdvances ==
    [][(wres'.op \in Polls /\ wres'.r = "Running") => offset' > offset]_vars

\* C36, the writer that takes zero bytes: the poll is inside its loop with
\* nothing written, and its next pass can leave it there
C36_Spinning ==
    /\ wkind = "sink"
    /\ pc = "poll_ready"
    /\ wres.r = "Running"
    /\ buffer.some
    /\ offset = 0

\* C36, second half: with an underlying writer that goes on to accept at
\* least one byte, repeated polling clears the pending buffer.
C36_DrainCompletes == buffer.some ~> ~buffer.some

\* An asynchronous read completed, and not with an error of the underlying
\* reader
AsyncReadDone ==
    /\ rkind = "areader"
    /\ nappend = 0
    /\ rres.op = "async_read"
    /\ rres.r \notin {"Pending", "Dropped"}
    /\ rres.kind # "Other"
    /\ npull <= Len(RawLines(inp))

\* C37 (as claimed): abandoning a read() in flight loses no input: whether or
\* not a read() was dropped after it had taken part of a line, the read()
\* that completes next returns the record of the whole line.
C37_DropLosesNothing ==
    AsyncReadDone =>
        rres = read("async_read", rres.T, RawLines(inp)[npull])

\* C37 (amended): a read() that is dropped after it took bytes of a line
\* takes them with it: the read() that completes next decodes what is left of
\* that line, which is an error or another value, and is the end of input
\* when the dropped call held all of an unterminated last line. Nothing is
\* lost when no dropped call had taken a byte.
C37_DropLosesItsBytes ==
    AsyncReadDone =>
        LET line == RawLines(inp)[npull] IN
        IF rclean THEN rres = read("async_read", rres.T, line)
        ELSE \E k \in 1..Len(line) :
                 rres = read("async_read", rres.T, Drop(line, k))

C37_Witness ==
    /\ AsyncReadDone
    /\ ~rclean
    /\ inp = <<"7", NL, "[", "]", CR, NL>>
    /\ npull = 2
    /\ rres.T = "seq"
    /\ rres.r = "Err"
    /\ rres.json
    /\ pos = 6

====
